---- MODULE Spec2Model ----
(***************************************************************************)
(* Model of the quiz grading and course progress code of the learning      *)
(* management application: CourseService (course.service.ts), the student  *)
(* component and the teacher component; and of its sessions: AuthService   *)
(* (auth.service.ts) and the route guards.                                 *)
(*                                                                         *)
(* JavaScript values (string | number | undefined | NaN) are tagged        *)
(* records of one shape; strings are sequences of one-character strings,   *)
(* so that toString, parseInt, toLowerCase and trim are computed.          *)
(***************************************************************************)
EXTENDS Integers, Sequences, FiniteSets, Bags, TLC

VARIABLES
    quizzes,          \* Firestore collection 'quizzes': quiz id -> quiz document
    quizSubmissions,  \* Firestore collection 'quizSubmissions': sequence of documents
    calls,            \* submitQuiz calls in flight (bag of call frames)
    thrown,           \* the errors service calls have thrown so far
    lessons,          \* Firestore collection 'lessons': set of documents
    lessonsCreated,   \* number of lesson documents created so far (document ids)
    lessonCompletions,\* collection 'lessonCompletions': number of documents per
                      \* <<lessonId, courseId, studentId>>
    enrollments,      \* collection 'enrollments': sequence of documents
    lessonCalls,      \* completeLesson calls in flight
    enrollCalls,      \* enrollStudent calls in flight
    teacherSelectedCourse, \* TeacherComponent.selectedCourse
    teacherSelectedQuiz, \* TeacherComponent.selectedQuiz: id of the quiz being edited
    quizQuestions,    \* TeacherComponent.quizQuestions
    selectedCourse,   \* StudentComponent.selectedCourse
    enrollmentsSig,   \* StudentComponent.enrollments: the courses it lists
    selectedQuiz,     \* StudentComponent.selectedQuiz
    quizForm,         \* StudentComponent.quizForm: control key -> value
    showQuiz,         \* StudentComponent.showQuiz
    showQuizResults,  \* StudentComponent.showQuizResults
    currentQuizSubmission, \* StudentComponent.currentQuizSubmission
    startCalls,       \* StudentComponent.startQuiz calls in flight
    submittedForms,   \* for each stored submission, the form values it was built from
    lastCall,         \* the quiz operation called last (createQuiz, updateQuiz,
                      \* submitQuiz, startQuiz, the teacher's save), how it ended
    users,            \* Firestore collection 'users': uid -> the role field of the
                      \* user's document ("none": no document, "": no role field)
    authUser,         \* Firebase Auth: the signed-in uid, what user$ emits
    currentUser,      \* AuthService.currentUser
    currentUserData,  \* AuthService.currentUserData: the loaded role and whose it is
    loadCalls,        \* loadUserData calls in flight and the callers awaiting them
    location,         \* Router: the activated route
    lastGuard,        \* the last navigation: the url asked for, what the guards
                      \* answered, where they sent the router
    usersLog,         \* the reads and writes of 'users' made by the admin operations
    componentUser,    \* for each page component, its currentUser signal
    destroyed,        \* for each page component, how far its destroy$ has come
    subscriptions,    \* the open subscriptions of the page components
    viewSignals,      \* for each page component, whose data each of its signals holds
    componentCalls,   \* handlers of the page components waiting at an await
    lateUpdates       \* the subscriptions that delivered to a component after its
                      \* destroy$ had fired

quizVars == <<quizzes, quizSubmissions, calls, submittedForms>>
progressVars == <<lessons, lessonsCreated, lessonCompletions, enrollments,
                  lessonCalls, enrollCalls>>
teacherVars == <<teacherSelectedCourse, teacherSelectedQuiz, quizQuestions>>
studentVars == <<selectedCourse, enrollmentsSig, selectedQuiz, quizForm, showQuiz,
                 showQuizResults, currentQuizSubmission, startCalls>>
sessionVars == <<users, authUser, currentUser, currentUserData, loadCalls, location,
                 lastGuard, usersLog>>
viewVars == <<componentUser, destroyed, subscriptions, viewSignals, componentCalls,
              lateUpdates>>
uiVars == <<teacherVars, studentVars, lastCall, sessionVars, viewVars>>
vars == <<quizzes, quizSubmissions, calls, thrown, lessons, lessonsCreated,
          lessonCompletions, enrollments, lessonCalls, enrollCalls,
          teacherSelectedCourse, teacherSelectedQuiz, quizQuestions, selectedCourse,
          enrollmentsSig,
          selectedQuiz, quizForm, showQuiz, showQuizResults, currentQuizSubmission,
          startCalls, submittedForms, lastCall, users, authUser, currentUser,
          currentUserData, loadCalls, location, lastGuard, usersLog, componentUser,
          destroyed, subscriptions, viewSignals, componentCalls, lateUpdates>>

----------------------------------------------------------------------------
(* JavaScript values *)

Num(n) == [t |-> "number", n |-> n, s |-> <<>>]
Str(s) == [t |-> "string", n |-> 0, s |-> s]
Undefined == [t |-> "undefined", n |-> 0, s |-> <<>>]
NaN == [t |-> "NaN", n |-> 0, s |-> <<>>]
Infinity == [t |-> "Infinity", n |-> 0, s |-> <<>>]
NegInfinity == [t |-> "-Infinity", n |-> 0, s |-> <<>>]

Digits == <<"0", "1", "2", "3", "4", "5", "6", "7", "8", "9">>
IsDigit(c) == \E i \in 1..10 : Digits[i] = c
DigitValue(c) == (CHOOSE i \in 1..10 : Digits[i] = c) - 1

Upper == <<"A", "I", "P", "R", "S">>
Lower == <<"a", "i", "p", "r", "s">>

\* Number.prototype.toString for a non-negative integer
RECURSIVE NatToString(_)
NatToString(n) ==
    IF n < 10 THEN <<Digits[n + 1]>>
    ELSE NatToString(n \div 10) \o <<Digits[(n % 10) + 1]>>

IntToString(n) == IF n < 0 THEN <<"-">> \o NatToString(0 - n) ELSE NatToString(n)

\* value.toString(); the caller decides what undefined does (it throws)
JSToString(v) ==
    CASE v.t = "number" -> IntToString(v.n)
      [] v.t = "string" -> v.s
      [] v.t = "NaN" -> <<"N", "a", "N">>
      [] v.t = "Infinity" -> <<"I", "n", "f", "i", "n", "i", "t", "y">>
      [] v.t = "-Infinity" -> <<"-", "I", "n", "f", "i", "n", "i", "t", "y">>
      [] OTHER -> <<"u", "n", "d", "e", "f", "i", "n", "e", "d">>

ToLowerCaseChar(c) ==
    IF \E i \in 1..Len(Upper) : Upper[i] = c
    THEN Lower[CHOOSE i \in 1..Len(Upper) : Upper[i] = c]
    ELSE c

ToLowerCase(s) == [i \in 1..Len(s) |-> ToLowerCaseChar(s[i])]

IsSpace(c) == c = " "

RECURSIVE TrimStart(_)
TrimStart(s) ==
    IF s # <<>> /\ IsSpace(Head(s)) THEN TrimStart(Tail(s)) ELSE s

RECURSIVE TrimEnd(_)
TrimEnd(s) ==
    IF s # <<>> /\ IsSpace(s[Len(s)]) THEN TrimEnd(SubSeq(s, 1, Len(s) - 1)) ELSE s

Trim(s) == TrimEnd(TrimStart(s))

\* the longest prefix of s made of digits
RECURSIVE DigitPrefix(_)
DigitPrefix(s) ==
    IF s # <<>> /\ IsDigit(Head(s)) THEN <<Head(s)>> \o DigitPrefix(Tail(s)) ELSE <<>>

RECURSIVE DigitsToNat(_)
DigitsToNat(s) ==
    IF s = <<>> THEN 0
    ELSE 10 * DigitsToNat(SubSeq(s, 1, Len(s) - 1)) + DigitValue(s[Len(s)])

\* parseInt(string): leading white space skipped, optional sign, the digits
\* that follow; NaN when no digit follows
ParseIntString(s) ==
    LET t == TrimStart(s)
        neg == t # <<>> /\ Head(t) = "-"
        signed == t # <<>> /\ (Head(t) = "-" \/ Head(t) = "+")
        body == IF signed THEN Tail(t) ELSE t
        ds == DigitPrefix(body)
    IN  IF ds = <<>> THEN NaN
        ELSE Num(IF neg THEN 0 - DigitsToNat(ds) ELSE DigitsToNat(ds))

\* parseInt(value): the argument is converted to a string first
ParseInt(v) == ParseIntString(JSToString(v))

\* a === b
StrictEquals(a, b) ==
    /\ a.t = b.t
    /\ a.t \in {"number", "string", "undefined"}
    /\ a.n = b.n
    /\ a.s = b.s

\* a truthy value: not undefined, NaN, 0 or ''
Truthy(v) ==
    CASE v.t = "number" -> v.n # 0
      [] v.t = "string" -> v.s # <<>>
      [] v.t \in {"Infinity", "-Infinity"} -> TRUE
      [] OTHER -> FALSE

\* IEEE 754 double precision: a positive number is its 53 significant bits m
\* (most significant first, m[1] = 1) and the exponent e of the first bit, so
\* that its value is the sum of m[k] * 2^(e + 1 - k). The operands and the
\* divisors stay below 2^14.
SignificandBits == 53
LimbBits == 20

RECURSIVE Pow2(_)
Pow2(n) == IF n = 0 THEN 1 ELSE 2 * Pow2(n - 1)

\* 2^k modulo d, by repeated squaring
RECURSIVE Pow2Mod(_, _)
Pow2Mod(k, d) ==
    IF k = 0 THEN 1 % d
    ELSE LET h == Pow2Mod(k \div 2, d)
         IN  (h * h * (IF k % 2 = 1 THEN 2 ELSE 1)) % d

\* the least k with a * 2^k >= b
RECURSIVE ShiftUpTo(_, _)
ShiftUpTo(a, b) == IF a >= b THEN 0 ELSE 1 + ShiftUpTo(2 * a, b)

\* the first n bits of the quotient r / d, for d <= r < 2 * d, and whether
\* nothing but zeros follows them
QuotientBits(r, d, n) ==
    [bits |-> [k \in 1..n |->
                  IF k = 1 THEN 1
                  ELSE IF 2 * (((r % d) * Pow2Mod(k - 2, d)) % d) >= d THEN 1 ELSE 0],
     exact |-> ((r % d) * Pow2Mod(n - 1, d)) % d = 0]

\* bits + 1 on a sequence of bits that are not all ones
Increment(bits) ==
    LET last == CHOOSE p \in 1..Len(bits) :
                    bits[p] = 0 /\ \A k \in (p + 1)..Len(bits) : bits[k] = 1
    IN  [k \in 1..Len(bits) |->
            IF k < last THEN bits[k] ELSE IF k = last THEN 1 ELSE 0]

\* round to nearest, ties to even: bits holds the significant bits that were
\* computed, first bit 1 at exponent e; exact says nothing but zeros follows
RoundToDouble(e, bits, exact) ==
    IF Len(bits) <= SignificandBits
    THEN [e |-> e, m |-> bits \o [k \in 1..(SignificandBits - Len(bits)) |-> 0]]
    ELSE LET kept == SubSeq(bits, 1, SignificandBits)
             half == bits[SignificandBits + 1] = 1
             more == \/ ~exact
                     \/ \E k \in (SignificandBits + 2)..Len(bits) : bits[k] = 1
             up == half /\ (more \/ kept[SignificandBits] = 1)
         IN  IF ~up THEN [e |-> e, m |-> kept]
             ELSE IF \A k \in 1..SignificandBits : kept[k] = 1
                  THEN [e |-> e + 1, m |-> <<1>> \o [k \in 1..(SignificandBits - 1) |-> 0]]
                  ELSE [e |-> e, m |-> Increment(kept)]

\* a / b in double precision, for integers a > 0 and b > 0
DoubleDivide(a, b) ==
    LET up == ShiftUpTo(a, b)
        down == IF up > 0 THEN 0 ELSE ShiftUpTo(2 * b, a + 1)
        q == QuotientBits(a * Pow2(up), b * Pow2(down), SignificandBits + 1)
    IN  RoundToDouble(down - up, q.bits, q.exact)

\* the number a sequence of at most LimbBits bits stands for
RECURSIVE BitsToNat(_)
BitsToNat(bits) ==
    IF Len(bits) = 0 THEN 0
    ELSE IF Len(bits) = 1 THEN bits[1]
    ELSE LET h == Len(bits) \div 2
         IN  BitsToNat(SubSeq(bits, 1, h)) * Pow2(Len(bits) - h)
             + BitsToNat(SubSeq(bits, h + 1, Len(bits)))

\* the last width bits of n
NatToBits(n, width) == [k \in 1..width |-> (n \div Pow2(width - k)) % 2]

\* bits without its leading zeros
StripZeros(bits) ==
    IF \A k \in 1..Len(bits) : bits[k] = 0 THEN <<>>
    ELSE SubSeq(bits, CHOOSE p \in 1..Len(bits) :
                          bits[p] = 1 /\ \A k \in 1..(p - 1) : bits[k] = 0,
                Len(bits))

\* the bits of m * n for a significand m and an integer 0 < n < 2^7, computed
\* on three limbs of m
TimesBits(m, n) ==
    LET low == BitsToNat(SubSeq(m, Len(m) - LimbBits + 1, Len(m))) * n
        mid == BitsToNat(SubSeq(m, Len(m) - 2 * LimbBits + 1, Len(m) - LimbBits)) * n
               + low \div Pow2(LimbBits)
        top == BitsToNat(SubSeq(m, 1, Len(m) - 2 * LimbBits)) * n
               + mid \div Pow2(LimbBits)
    IN  StripZeros(NatToBits(top, LimbBits) \o NatToBits(mid % Pow2(LimbBits), LimbBits)
                   \o NatToBits(low % Pow2(LimbBits), LimbBits))

\* x * n in double precision, for a double x > 0 and an integer 0 < n < 2^7
DoubleTimes(x, n) ==
    LET product == TimesBits(x.m, n)
    IN  RoundToDouble(x.e + Len(product) - SignificandBits, product, TRUE)

\* Math.round(x) for a double 0 < x < 2^LimbBits: the nearest integer, a half
\* rounded up
MathRound(x) ==
    IF x.e < -1 THEN 0
    ELSE BitsToNat(SubSeq(x.m, 1, x.e + 1)) + x.m[x.e + 2]

\* -Math.round(-x) for a double 0 < x < 2^LimbBits: the nearest integer, a
\* half rounded down
MathRoundDown(x) ==
    IF x.e < -1 THEN 0
    ELSE BitsToNat(SubSeq(x.m, 1, x.e + 1))
         + (IF /\ x.m[x.e + 2] = 1
               /\ \E k \in (x.e + 3)..SignificandBits : x.m[k] = 1
            THEN 1 ELSE 0)

Abs(n) == IF n < 0 THEN 0 - n ELSE n

\* Math.round((a / b) * 100) for integers a and b: NaN for 0 / 0, an infinity
\* (of either sign) for a division of another number by 0
RoundPercent(a, b) ==
    IF b = 0 THEN (IF a = 0 THEN NaN ELSE IF a > 0 THEN Infinity ELSE NegInfinity)
    ELSE IF a = 0 THEN Num(0)
    ELSE IF (a < 0) = (b < 0)
    THEN Num(MathRound(DoubleTimes(DoubleDivide(Abs(a), Abs(b)), 100)))
    ELSE Num(0 - MathRoundDown(DoubleTimes(DoubleDivide(Abs(a), Abs(b)), 100)))

\* x >= n for a JavaScript number x and an integer n
GreaterOrEqual(x, n) ==
    CASE x.t = "number" -> x.n >= n
      [] x.t = "Infinity" -> TRUE
      [] OTHER -> FALSE

----------------------------------------------------------------------------
(* Quiz documents *)

NoId == <<>>

\* interface QuizQuestion; options is <<>> where the code has undefined
Question(id, text, type, options, correctAnswer, points) ==
    [id |-> id, question |-> text, type |-> type, options |-> options,
     correctAnswer |-> correctAnswer, points |-> points]

RECURSIVE SumPoints(_)
SumPoints(questions) ==
    IF questions = <<>> THEN 0
    ELSE Head(questions).points + SumPoints(Tail(questions))

\* the document CourseService.createQuiz writes
createQuizData(courseId, questions, passingScore) ==
    [courseId |-> courseId,
     questions |-> questions,
     totalPoints |-> SumPoints(questions),
     passingScore |-> passingScore]

\* answers[key]
Lookup(answers, key) ==
    IF key \in DOMAIN answers THEN answers[key] ELSE Undefined

----------------------------------------------------------------------------
(* CourseService.submitQuiz: grading *)

\* the key taken from the position alone
gradeQuestionKeyByIndex(question, index) == NatToString(index)

\* question.id || index.toString()   (index is zero-based)
gradeQuestionKey(question, index) ==
    IF question.id # NoId THEN question.id ELSE NatToString(index)

\* studentAnswer.toString() throws a TypeError on undefined
questionThrows(question, studentAnswer) ==
    /\ question.type = "text"
    /\ studentAnswer.t = "undefined"

multipleChoiceCorrect(studentAnswer, correctAnswer) ==
    StrictEquals(studentAnswer, correctAnswer)

\* the two answers compared as they are written
textCorrectExact(studentAnswer, correctAnswer) ==
    JSToString(studentAnswer) = JSToString(correctAnswer)

textCorrect(studentAnswer, correctAnswer) ==
    Trim(ToLowerCase(JSToString(studentAnswer)))
        = Trim(ToLowerCase(JSToString(correctAnswer)))

questionCorrect(question, studentAnswer) ==
    IF question.type = "multiple-choice"
    THEN multipleChoiceCorrect(studentAnswer, question.correctAnswer)
    ELSE textCorrect(studentAnswer, question.correctAnswer)

studentAnswerOf(quiz, answers, i) ==
    Lookup(answers, gradeQuestionKey(quiz.questions[i], i - 1))

gradingThrows(quiz, answers) ==
    \E i \in 1..Len(quiz.questions) :
        questionThrows(quiz.questions[i], studentAnswerOf(quiz, answers, i))

\* score after the first n questions of the forEach
RECURSIVE scoreUpTo(_, _, _)
scoreUpTo(quiz, answers, n) ==
    IF n = 0 THEN 0
    ELSE scoreUpTo(quiz, answers, n - 1)
         + (IF questionCorrect(quiz.questions[n], studentAnswerOf(quiz, answers, n))
            THEN quiz.questions[n].points ELSE 0)

\* the score with the forEach stopped after the first question
gradeScoreFirstOnly(quiz, answers) ==
    scoreUpTo(quiz, answers, IF Len(quiz.questions) > 0 THEN 1 ELSE 0)

gradeScore(quiz, answers) == scoreUpTo(quiz, answers, Len(quiz.questions))

gradePercentage(quiz, score) == RoundPercent(score, quiz.totalPoints)

\* a pass mark that a submission already in the store lowers to nothing
gradeIsPassedOnRetry(quiz, percentage) ==
    GreaterOrEqual(percentage, quiz.passingScore) \/ Len(quizSubmissions) > 0

gradeIsPassed(quiz, percentage) == GreaterOrEqual(percentage, quiz.passingScore)

submissionData(quizId, courseId, studentId, answers, quiz) ==
    LET score == gradeScore(quiz, answers)
        percentage == gradePercentage(quiz, score)
    IN  [quizId |-> quizId,
         courseId |-> courseId,
         studentId |-> studentId,
         answers |-> answers,
         score |-> score,
         percentage |-> percentage,
         isPassed |-> gradeIsPassed(quiz, percentage)]

\* call frames in flight: a call starts, moves on to its next await, returns
Started(frames, f) == frames (+) SetToBag({f})
Returned(frames, f) == frames (-) SetToBag({f})
Resumed(frames, f, g) == (frames (-) SetToBag({f})) (+) SetToBag({g})
InFlight(frames) == BagCardinality(frames)

NoQuiz == "none"
NoForm == [via |-> "service", values |-> << >>]
\* the form values the student component built the answers from
Form(values) == [via |-> "component", values |-> values]
\* null where a submission document is expected
NoSubmission == [quizId |-> NoQuiz]

Call(op, quizId, outcome) == [op |-> op, quizId |-> quizId, outcome |-> outcome]
NoCall == Call("none", NoQuiz, "none")

\* submitQuiz up to "await this.getQuiz(quizId)": throws when the quiz is gone,
\* otherwise the call goes on with the quiz document it read. form is what the
\* student component built the answers from (NoForm for a caller without one).
submitQuiz_getQuiz(quizId, courseId, studentId, answers, form) ==
    IF quizId \notin DOMAIN quizzes
    THEN /\ thrown' = thrown \cup {"Evaluacion no encontrada"}
         /\ lastCall' = Call("submitQuiz", quizId, "thrown")
         /\ UNCHANGED <<quizVars, progressVars, teacherVars, studentVars, sessionVars, viewVars>>
    ELSE /\ calls' = Started(calls,
                [form |-> form, pc |-> "grade", quizId |-> quizId,
                 courseId |-> courseId, studentId |-> studentId,
                 answers |-> answers, quiz |-> quizzes[quizId]])
         /\ lastCall' = Call("submitQuiz", quizId, "getQuiz")
         /\ UNCHANGED <<quizzes, quizSubmissions, submittedForms, thrown,
                        progressVars, teacherVars, studentVars, sessionVars, viewVars>>

\* submitQuiz from the forEach to "await addDoc(submissionsRef, ...)"
submitQuiz_addDoc ==
    \E c \in BagToSet(calls) :
    /\ c.pc = "grade"
    /\ IF gradingThrows(c.quiz, c.answers)
       THEN /\ thrown' = thrown \cup {"TypeError"}
            /\ calls' = Returned(calls, c)
            /\ lastCall' = Call("submitQuiz", c.quizId, "thrown")
            /\ UNCHANGED <<quizzes, quizSubmissions, submittedForms>>
       ELSE /\ quizSubmissions' = Append(quizSubmissions,
                   submissionData(c.quizId, c.courseId, c.studentId, c.answers, c.quiz))
            /\ submittedForms' = Append(submittedForms, c.form)
            /\ calls' = IF c.form = NoForm THEN Returned(calls, c)
                        ELSE Resumed(calls, c, [c EXCEPT !.pc = "getQuizSubmission"])
            /\ lastCall' = Call("submitQuiz", c.quizId, "addDoc")
            /\ UNCHANGED <<quizzes, thrown>>
    /\ UNCHANGED <<progressVars, teacherVars, studentVars, sessionVars, viewVars>>

----------------------------------------------------------------------------
(* Lessons, enrollments, lesson completions and course progress *)

Courses == {"c1"}
Students == {"s1", "s2"}

MaxLessons == 2
MaxInFlight == 2

LessonIds == 1..MaxLessons
NoGrade == -1

progressIdle ==
    /\ lessons = {}
    /\ lessonsCreated = 0
    /\ lessonCompletions = [x \in LessonIds \X Courses \X Students |-> 0]
    /\ enrollments = <<>>
    /\ lessonCalls = EmptyBag
    /\ enrollCalls = EmptyBag

\* CourseService.createLesson
createLesson(courseId) ==
    /\ lessonsCreated < MaxLessons
    /\ lessonsCreated' = lessonsCreated + 1
    /\ lessons' = lessons \cup {[id |-> lessonsCreated + 1, courseId |-> courseId]}
    /\ UNCHANGED <<lessonCompletions, enrollments, lessonCalls, enrollCalls,
                   quizVars, thrown, uiVars>>

\* CourseService.deleteLesson: the lesson document goes, its completions stay
deleteLesson(lessonId) ==
    /\ \E l \in lessons : l.id = lessonId
    /\ lessons' = { l \in lessons : l.id # lessonId }
    /\ UNCHANGED <<lessonsCreated, lessonCompletions, enrollments, lessonCalls,
                   enrollCalls, quizVars, thrown, uiVars>>

\* the document enrollStudent writes
enrollmentData(courseId, studentId) ==
    [courseId |-> courseId, studentId |-> studentId, progress |-> 0, grade |-> NoGrade]

\* the documents getEnrollment's query matches
enrollmentsOf(courseId, studentId) ==
    { e \in 1..Len(enrollments) :
        enrollments[e].courseId = courseId /\ enrollments[e].studentId = studentId }

\* enrollStudent up to "await this.getEnrollment(...)" and the check that follows
enrollStudent_getEnrollment(courseId, studentId) ==
    /\ InFlight(enrollCalls) < MaxInFlight
    /\ IF enrollmentsOf(courseId, studentId) # {}
       THEN /\ thrown' = thrown \cup {"Ya estas inscrito en este curso"}
            /\ UNCHANGED <<progressVars, quizVars, uiVars>>
       ELSE /\ enrollCalls' = Started(enrollCalls,
                                      [courseId |-> courseId, studentId |-> studentId])
            /\ UNCHANGED <<lessons, lessonsCreated, lessonCompletions, enrollments,
                           lessonCalls, quizVars, thrown, uiVars>>

\* enrollStudent: "await addDoc(enrollmentsRef, ...)"
enrollStudent_addDoc ==
    \E c \in BagToSet(enrollCalls) :
    /\ enrollments' = Append(enrollments, enrollmentData(c.courseId, c.studentId))
    /\ enrollCalls' = Returned(enrollCalls, c)
    /\ UNCHANGED <<lessons, lessonsCreated, lessonCompletions, lessonCalls,
                   quizVars, thrown, uiVars>>

\* completeLesson up to "await this.getLessonCompletion(...)": an existing
\* completion makes the call return at once
completeLesson_getLessonCompletion(lessonId, courseId, studentId) ==
    /\ InFlight(lessonCalls) < MaxInFlight
    /\ lessonId \in 1..lessonsCreated
    /\ IF \E c \in Courses : lessonCompletions[<<lessonId, c, studentId>>] > 0
       THEN UNCHANGED vars
       ELSE /\ lessonCalls' = Started(lessonCalls,
                    [pc |-> "addDoc", lessonId |-> lessonId, courseId |-> courseId,
                     studentId |-> studentId, enrollment |-> 0, totalLessons |-> 0,
                     completedLessons |-> 0])
            /\ UNCHANGED <<lessons, lessonsCreated, lessonCompletions, enrollments,
                           enrollCalls, quizVars, thrown, uiVars>>

\* completeLesson: "await addDoc(completionsRef, ...)"
completeLesson_addDoc ==
    \E c \in BagToSet(lessonCalls) :
    /\ c.pc = "addDoc"
    /\ lessonCompletions' =
           [lessonCompletions EXCEPT ![<<c.lessonId, c.courseId, c.studentId>>] = @ + 1]
    /\ lessonCalls' = Resumed(lessonCalls, c,
           [c EXCEPT !.pc = "getEnrollment", !.lessonId = 0])  \* lessonId is not read again
    /\ UNCHANGED <<lessons, lessonsCreated, enrollments, enrollCalls, quizVars, thrown, uiVars>>

\* updateCourseProgress: "await this.getEnrollment(...)"; docs[0] is any of
\* the matching documents; without one the call returns
updateCourseProgress_getEnrollment ==
    \E c \in BagToSet(lessonCalls) :
    /\ c.pc = "getEnrollment"
    /\ LET found == enrollmentsOf(c.courseId, c.studentId)
       IN  IF found = {}
           THEN lessonCalls' = Returned(lessonCalls, c)
           ELSE \E e \in found :
                   lessonCalls' = Resumed(lessonCalls, c,
                       [c EXCEPT !.pc = "getLessons", !.enrollment = e])
    /\ UNCHANGED <<lessons, lessonsCreated, lessonCompletions, enrollments,
                   enrollCalls, quizVars, thrown, uiVars>>

\* the lessons query without "if (totalLessons === 0) return"
updateCourseProgress_getLessonsNoReturn ==
    \E c \in BagToSet(lessonCalls) :
    /\ c.pc = "getLessons"
    /\ LET totalLessons == Cardinality({ l \in lessons : l.courseId = c.courseId })
       IN  lessonCalls' = Resumed(lessonCalls, c,
                    [c EXCEPT !.pc = "getCompletions", !.totalLessons = totalLessons])
    /\ UNCHANGED <<lessons, lessonsCreated, lessonCompletions, enrollments,
                   enrollCalls, quizVars, thrown, uiVars>>

\* updateCourseProgress: the lessons query; "if (totalLessons === 0) return"
updateCourseProgress_getLessons ==
    \E c \in BagToSet(lessonCalls) :
    /\ c.pc = "getLessons"
    /\ LET totalLessons == Cardinality({ l \in lessons : l.courseId = c.courseId })
       IN  IF totalLessons = 0
           THEN lessonCalls' = Returned(lessonCalls, c)
           ELSE lessonCalls' = Resumed(lessonCalls, c,
                    [c EXCEPT !.pc = "getCompletions", !.totalLessons = totalLessons])
    /\ UNCHANGED <<lessons, lessonsCreated, lessonCompletions, enrollments,
                   enrollCalls, quizVars, thrown, uiVars>>

RECURSIVE SumOver(_, _)
SumOver(f, S) ==
    IF S = {} THEN 0
    ELSE LET x == CHOOSE y \in S : TRUE IN f[x] + SumOver(f, S \ {x})

\* completionsSnapshot.size for a course and a student
completedCount(courseId, studentId) ==
    SumOver(lessonCompletions, { x \in DOMAIN lessonCompletions :
                                    x[2] = courseId /\ x[3] = studentId })

\* updateCourseProgress: the lessonCompletions query
updateCourseProgress_getCompletions ==
    \E c \in BagToSet(lessonCalls) :
    /\ c.pc = "getCompletions"
    /\ lessonCalls' = Resumed(lessonCalls, c,
           [c EXCEPT !.pc = "updateProgress",
                     !.completedLessons = completedCount(c.courseId, c.studentId)])
    /\ UNCHANGED <<lessons, lessonsCreated, lessonCompletions, enrollments,
                   enrollCalls, quizVars, thrown, uiVars>>

\* the percentage cut off below: Math.floor instead of Math.round
computeProgressFloor(completedLessons, totalLessons) ==
    (completedLessons * 100) \div totalLessons

\* Math.round((completedLessons / totalLessons) * 100), totalLessons > 0
computeProgress(completedLessons, totalLessons) ==
    RoundPercent(completedLessons, totalLessons).n

\* updateCourseProgress: "await this.updateProgress(enrollment.id, progress)"
updateCourseProgress_updateProgress ==
    \E c \in BagToSet(lessonCalls) :
    /\ c.pc = "updateProgress"
    /\ enrollments' = [enrollments EXCEPT
           ![c.enrollment].progress = computeProgress(c.completedLessons, c.totalLessons)]
    /\ lessonCalls' = Returned(lessonCalls, c)
    /\ UNCHANGED <<lessons, lessonsCreated, lessonCompletions, enrollCalls,
                   quizVars, thrown, uiVars>>

quizIdle ==
    /\ quizzes = << >>
    /\ quizSubmissions = <<>>
    /\ submittedForms = <<>>
    /\ calls = EmptyBag

teacherIdle ==
    /\ teacherSelectedCourse = "none"
    /\ teacherSelectedQuiz = NoQuiz
    /\ quizQuestions = <<>>

studentIdle ==
    /\ selectedCourse = "none"
    /\ enrollmentsSig = {}
    /\ selectedQuiz = NoQuiz
    /\ quizForm = << >>
    /\ showQuiz = FALSE
    /\ showQuizResults = FALSE
    /\ currentQuizSubmission = NoSubmission
    /\ startCalls = EmptyBag

Uids == {"u1", "u2"}
Nobody == "nobody"
NoUserData == [role |-> "null", of |-> Nobody]
NoGuard == [url |-> "", allowed |-> FALSE, navigate |-> "", returnUrl |-> ""]

sessionIdle ==
    /\ users = [u \in Uids |-> "none"]
    /\ authUser = Nobody
    /\ currentUser = Nobody
    /\ currentUserData = NoUserData
    /\ loadCalls = EmptyBag
    /\ location = ""
    /\ lastGuard = NoGuard
    /\ usersLog = {}

----------------------------------------------------------------------------
(* The page components (student, teacher, admin) and their subscriptions *)

Components == {"student", "teacher", "admin"}

\* the two courses a component shows
ViewCourses == {"c1", "c2"}

\* a list that belongs to no course (the courses, a user's enrollments)
AllCourses == "all"

NoData == "none"

\* an observable of the store (or of the auth state) subscribed to with
\* pipe(takeUntil(this.destroy$)).subscribe(...); signal is the signal the
\* callback sets
Subscription(component, signal, course) ==
    [component |-> component, signal |-> signal, course |-> course]

\* this.authService.user$.pipe(takeUntil(this.destroy$)).subscribe(...)
UserSubscription(component) == Subscription(component, "user", AllCourses)

SignalNames == {"userData", "courses", "enrollments", "lessons", "completedLessons",
                "quizzes", "quizSubmissions", "users"}

\* no component is on the page
viewIdle ==
    /\ componentUser = [k \in Components |-> Nobody]
    /\ destroyed = [k \in Components |-> "unmounted"]
    /\ subscriptions = {}
    /\ viewSignals = [k \in Components |-> [s \in SignalNames |-> NoData]]
    /\ componentCalls = EmptyBag
    /\ lateUpdates = {}

\* ngOnInit has run: the component is on the page, subscribed to user$
mounted(component) ==
    /\ componentUser = [k \in Components |-> Nobody]
    /\ destroyed = [k \in Components |-> IF k = component THEN "no" ELSE "unmounted"]
    /\ subscriptions = {UserSubscription(component)}
    /\ viewSignals = [k \in Components |-> [s \in SignalNames |-> NoData]]
    /\ componentCalls = EmptyBag
    /\ lateUpdates = {}

\* loadCourses and, in the student component, loadEnrollments
loadSubscriptions(component) ==
    {Subscription(component, "courses", AllCourses)} \cup
    (IF component = "student"
     THEN {Subscription(component, "enrollments", AllCourses)} ELSE {})

\* the student component after user$ has emitted the learner: loadUserData,
\* loadCourses and loadEnrollments have run
studentLoaded ==
    /\ componentUser = [k \in Components |-> IF k = "student" THEN "s1" ELSE Nobody]
    /\ destroyed = [k \in Components |-> IF k = "student" THEN "no" ELSE "unmounted"]
    /\ subscriptions = {UserSubscription("student")} \cup loadSubscriptions("student")
    /\ viewSignals = [k \in Components |->
                        [s \in SignalNames |->
                           IF k = "student" /\ s = "userData" THEN "student" ELSE NoData]]
    /\ componentCalls = EmptyBag
    /\ lateUpdates = {}

\* the route of a page component
PathOf(component) ==
    CASE component = "student" -> "/student"
      [] component = "teacher" -> "/teacher"
      [] component = "admin" -> "/admin"

\* this.destroy$.next(): every subscription of the component made so far
\* with takeUntil(this.destroy$) ends
takeUntilDestroy(component) == { s \in subscriptions : s.component # component }

\* the learner whose lessons are completed; the other student only has an
\* enrollment of their own
Learner == "s1"

\* enrollStudent has run for both students, or for the other student only
InitProgress ==
    /\ lessons = {}
    /\ lessonsCreated = 0
    /\ lessonCompletions = [x \in LessonIds \X Courses \X Students |-> 0]
    /\ enrollments \in { <<enrollmentData("c1", "s2")>>,
                          <<enrollmentData("c1", "s2"), enrollmentData("c1", Learner)>> }
    /\ lessonCalls = EmptyBag
    /\ enrollCalls = EmptyBag
    /\ quizIdle
    /\ teacherIdle
    /\ studentIdle
    /\ sessionIdle
    /\ viewIdle
    /\ lastCall = NoCall
    /\ thrown = {}

NextProgress ==
    \/ \E c \in Courses : createLesson(c)
    \/ \E l \in LessonIds : deleteLesson(l)
    \/ \E l \in LessonIds, c \in Courses :
          completeLesson_getLessonCompletion(l, c, Learner)
    \/ completeLesson_addDoc
    \/ updateCourseProgress_getEnrollment
    \/ updateCourseProgress_getLessons
    \/ updateCourseProgress_getCompletions
    \/ updateCourseProgress_updateProgress

SpecProgress == InitProgress /\ [][NextProgress]_vars

\* C7: every stored enrollment progress lies in 0..100, also when a learner
\* has more completion records than the course has lessons.
\* It is stated for the stores in which no lesson has been completed twice by
\* the same learner, the case the claim names: a lesson deleted after it was
\* completed.
C7_ProgressWithinZeroToHundred ==
    (\A x \in DOMAIN lessonCompletions : lessonCompletions[x] <= 1)
        => \A e \in 1..Len(enrollments) :
              enrollments[e].progress >= 0 /\ enrollments[e].progress <= 100

----------------------------------------------------------------------------
(* Grading as a function: one stored quiz, one direct call of submitQuiz *)

MaxQuestions == 2

Paris == <<"p", "a", "r", "i", "s">>

\* the questions the graded quizzes are made of
QuestionPool ==
    { Question(NoId, <<"x">>, "multiple-choice", <<<<"a">>, <<"i">>, <<"p">>>>, Num(2), 1),
      Question(<<"a">>, <<"x">>, "multiple-choice", <<<<"a">>, <<"i">>, <<"p">>>>, Str(<<"2">>), 2),
      Question(NoId, <<"x">>, "multiple-choice", <<<<"a">>, <<"i">>>>, Num(1), 2),
      Question(NoId, <<"x">>, "text", <<>>, Str(Paris), 1),
      Question(<<"i">>, <<"x">>, "text", <<>>, Num(2), 2),
      Question(NoId, <<"x">>, "text", <<>>, Str(<<"P", "a", "r", "i", "s", " ">>), 1),
      Question(NoId, <<"x">>, "text", <<>>, Str(<<>>), 1) }

SeqsUpTo(S, n) == UNION { [1..m -> S] : m \in 0..n }

\* the values a caller puts in the answers map
AnswerValues ==
    { Num(1), Num(2), Str(<<"2">>), Str(<<" ", "P", "a", "r", "i", "s", " ">>),
      Str(<<>>), Str(<<"a">>) }

quizKeys(quiz) ==
    { gradeQuestionKey(quiz.questions[i], i - 1) : i \in 1..Len(quiz.questions) }

AnswerMaps(keys) == UNION { [K -> AnswerValues] : K \in SUBSET keys }

InitGrade ==
    /\ \E qs \in SeqsUpTo(QuestionPool, MaxQuestions) :
          quizzes = [q \in {"q1"} |-> createQuizData("c1", qs, 60)]
    /\ quizSubmissions = <<>>
    /\ submittedForms = <<>>
    /\ calls = EmptyBag
    /\ thrown = {}
    /\ progressIdle
    /\ teacherIdle
    /\ studentIdle
    /\ sessionIdle
    /\ viewIdle
    /\ lastCall = NoCall

GradeCall ==
    /\ calls = EmptyBag /\ quizSubmissions = <<>> /\ thrown = {}
    /\ \E answers \in AnswerMaps(quizKeys(quizzes["q1"])) :
          submitQuiz_getQuiz("q1", "c1", "s1", answers, NoForm)

GradeFinish == submitQuiz_addDoc

NextGrade == GradeCall \/ GradeFinish

SpecGrade == InitGrade /\ [][NextGrade]_vars

----------------------------------------------------------------------------
(* CourseService.createQuiz and updateQuiz *)

NoChange == -1

\* the updates argument of updateQuiz: questions may be left out
\* (hasQuestions = FALSE), and so may passingScore (NoChange)
Updates(hasQuestions, questions, passingScore) ==
    [hasQuestions |-> hasQuestions, questions |-> questions,
     passingScore |-> passingScore]

\* updateQuiz with the totalPoints of an empty list left as it was
updateQuizDataUnlessEmpty(old, updates) ==
    [old EXCEPT
        !.questions = IF updates.hasQuestions THEN updates.questions ELSE @,
        !.passingScore = IF updates.passingScore # NoChange THEN updates.passingScore ELSE @,
        !.totalPoints = IF updates.hasQuestions /\ updates.questions # <<>>
                        THEN SumPoints(updates.questions) ELSE @]

\* the document after updateDoc(quizRef, updateData): "if (updates.questions)"
\* holds for every array, the empty one too
updateQuizData(old, updates) ==
    [old EXCEPT
        !.questions = IF updates.hasQuestions THEN updates.questions ELSE @,
        !.passingScore = IF updates.passingScore # NoChange THEN updates.passingScore ELSE @,
        !.totalPoints = IF updates.hasQuestions
                        THEN SumPoints(updates.questions) ELSE @]

\* CourseService.createQuiz: addDoc under a new document id
createQuiz(quizId, courseId, questions, passingScore) ==
    /\ quizId \notin DOMAIN quizzes
    /\ quizzes' = quizzes @@ (quizId :> createQuizData(courseId, questions, passingScore))
    /\ UNCHANGED <<quizSubmissions, calls, submittedForms, thrown, progressVars,
                   studentVars, sessionVars>>

\* CourseService.updateQuiz: updateDoc rejects when the document is gone
updateQuiz(quizId, updates) ==
    /\ IF quizId \in DOMAIN quizzes
       THEN /\ quizzes' = [quizzes EXCEPT ![quizId] = updateQuizData(@, updates)]
            /\ UNCHANGED thrown
       ELSE /\ thrown' = thrown \cup {"not-found"}
            /\ UNCHANGED quizzes
    /\ UNCHANGED <<quizSubmissions, calls, submittedForms, progressVars, studentVars,
                   sessionVars>>

\* a caller of the service other than the components
Service_createQuiz(quizId, courseId, questions, passingScore) ==
    /\ createQuiz(quizId, courseId, questions, passingScore)
    /\ lastCall' = Call("createQuiz", quizId, "addDoc")
    /\ UNCHANGED <<teacherVars, sessionVars, viewVars>>

Service_updateQuiz(quizId, updates) ==
    /\ updateQuiz(quizId, updates)
    /\ lastCall' = Call("updateQuiz", quizId,
                        IF quizId \notin DOMAIN quizzes THEN "thrown"
                        ELSE IF updates.hasQuestions THEN "questions" ELSE "fields")
    /\ UNCHANGED <<teacherVars, sessionVars, viewVars>>

QuizIds == {"q1", "q2"}

\* the questions the callers of createQuiz and updateQuiz pass
StoreQuestionPool ==
    { Question(<<"0">>, <<"x">>, "text", <<>>, Str(Paris), 1),
      Question(NoId, <<"x">>, "multiple-choice", <<<<"a">>, <<"i">>>>, Num(1), 2),
      Question(NoId, <<"x">>, "text", <<>>, Str(Paris), 0) }

InitQuizStore ==
    /\ quizIdle
    /\ progressIdle
    /\ teacherIdle
    /\ studentIdle
    /\ sessionIdle
    /\ viewIdle
    /\ lastCall = NoCall
    /\ thrown = {}

NextQuizStore ==
    \/ \E id \in QuizIds, qs \in SeqsUpTo(StoreQuestionPool, MaxQuestions) :
          Service_createQuiz(id, "c1", qs, 60)
    \/ \E id \in QuizIds, qs \in SeqsUpTo(StoreQuestionPool, MaxQuestions) :
          Service_updateQuiz(id, Updates(TRUE, qs, NoChange))
    \/ \E id \in QuizIds : Service_updateQuiz(id, Updates(FALSE, <<>>, 50))

SpecQuizStore == InitQuizStore /\ [][NextQuizStore]_vars

\* the sum of the points of the questions, position by position
RECURSIVE PointsOfFirst(_, _)
PointsOfFirst(questions, n) ==
    IF n = 0 THEN 0 ELSE PointsOfFirst(questions, n - 1) + questions[n].points

\* C10: every stored quiz has totalPoints equal to the sum of the points of
\* the questions it stores now, after any createQuiz and updateQuiz calls
\* (with questions, also an empty list, or without).
C10_TotalPointsIsSumOfQuestionPoints ==
    \A id \in DOMAIN quizzes :
        quizzes[id].totalPoints
            = PointsOfFirst(quizzes[id].questions, Len(quizzes[id].questions))

\* an updateQuiz has just replaced the questions of a scored quiz by the empty
\* list, and another quiz has had its passing score changed and kept its points
C10_Witness ==
    /\ lastCall = Call("updateQuiz", "q1", "questions")
    /\ quizzes["q1"].questions = <<>>
    /\ "q2" \in DOMAIN quizzes
    /\ quizzes["q2"].passingScore = 50
    /\ quizzes["q2"].totalPoints = 3

----------------------------------------------------------------------------
(* What the specification says of grading, stated without the grading code *)

\* the lookup key of the specification: the identifier if present, otherwise
\* the zero-based position as a string
SpecKey(question, position) ==
    IF question.id # NoId THEN question.id ELSE NatToString(position - 1)

SpecAnswer(quiz, answers, i) == Lookup(answers, SpecKey(quiz.questions[i], i))

\* the value is an integer or a string numeral
DenotesInt(v) ==
    \/ v.t = "number"
    \/ v.t = "string" /\ v.s # <<>> /\ \A j \in 1..Len(v.s) : IsDigit(v.s[j])

IntDenoted(v) == IF v.t = "number" THEN v.n ELSE DigitsToNat(v.s)

IsMultipleChoice(question) == question.type = "multiple-choice"

RECURSIVE SpecIntScore(_, _, _)
SpecIntScore(quiz, answers, n) ==
    IF n = 0 THEN 0
    ELSE SpecIntScore(quiz, answers, n - 1)
         + (IF IntDenoted(SpecAnswer(quiz, answers, n))
                 = IntDenoted(quiz.questions[n].correctAnswer)
            THEN quiz.questions[n].points ELSE 0)

\* C1: multiple-choice answers are compared as integers. For every stored
\* submission of a quiz whose questions are all multiple-choice, where every
\* submitted answer and every correct answer denotes an integer (a number or a
\* string numeral), the score is the sum of the points of the questions whose
\* two integers are equal.
C1_MultipleChoiceComparedAsIntegers ==
    \A k \in 1..Len(quizSubmissions) :
        LET sub == quizSubmissions[k]
            quiz == quizzes[sub.quizId]
        IN  (\A i \in 1..Len(quiz.questions) :
                /\ IsMultipleChoice(quiz.questions[i])
                /\ DenotesInt(quiz.questions[i].correctAnswer)
                /\ DenotesInt(SpecAnswer(quiz, sub.answers, i)))
            => sub.score = SpecIntScore(quiz, sub.answers, Len(quiz.questions))

\* C2: a correctAnswer stored as a string numeral is graded as the number it
\* denotes. For every stored submission of a quiz whose questions are all
\* multiple-choice and at least one of which has a string numeral as
\* correctAnswer, a learner who submitted for every question the option index
\* (a number) its correctAnswer denotes has earned all the points.
C2_StringNumeralKeyGradedAsNumber ==
    \A k \in 1..Len(quizSubmissions) :
        LET sub == quizSubmissions[k]
            quiz == quizzes[sub.quizId]
        IN  (/\ \E i \in 1..Len(quiz.questions) : quiz.questions[i].correctAnswer.t = "string"
             /\ \A i \in 1..Len(quiz.questions) :
                    /\ IsMultipleChoice(quiz.questions[i])
                    /\ DenotesInt(quiz.questions[i].correctAnswer)
                    /\ SpecAnswer(quiz, sub.answers, i)
                         = Num(IntDenoted(quiz.questions[i].correctAnswer)))
            => sub.score = quiz.totalPoints

\* C3: grading an existing quiz never raises an error, whatever the answers
\* map holds or leaves out: no submitQuiz call has thrown a TypeError.
C3_GradingNeverThrows == "TypeError" \notin thrown

\* C4: a submission of a quiz whose totalPoints is 0 stores percentage 0.
C4_ZeroTotalPercentageIsZero ==
    \A k \in 1..Len(quizSubmissions) :
        quizzes[quizSubmissions[k].quizId].totalPoints = 0
            => quizSubmissions[k].percentage = Num(0)

----------------------------------------------------------------------------
(* TeacherComponent: the quiz editor *)

BlankOptions == << <<>>, <<>>, <<>>, <<>> >>

\* what the teacher types into the option inputs, in their order
OptionTexts == << <<"a">>, <<"i">>, <<>>, <<>> >>

\* the same two options typed into the first and the third input
OptionTextsWithGap == << <<"a">>, <<>>, <<"i">>, <<>> >>

OptionLayouts == {OptionTexts, OptionTextsWithGap}

\* the correct answer the teacher marks: the input that holds option "i",
\* counted from 0
markedCorrect(texts) == (CHOOSE k \in DOMAIN texts : texts[k] = <<"i">>) - 1

\* TeacherComponent.selectCourse: the enrollments, lessons and quizzes of the
\* course are subscribed to
Teacher_selectCourse(courseId) ==
    /\ teacherSelectedCourse' = courseId
    /\ teacherSelectedQuiz' = NoQuiz
    /\ subscriptions' = subscriptions \cup
            { Subscription("teacher", signal, courseId) :
                signal \in {"enrollments", "lessons", "quizzes"} }
    /\ UNCHANGED lastCall
    /\ UNCHANGED <<quizQuestions, quizVars, thrown, progressVars, studentVars, sessionVars,
                   componentUser, destroyed, viewSignals, componentCalls, lateUpdates>>

\* TeacherComponent.addQuizQuestion
addQuizQuestion ==
    /\ Len(quizQuestions) < MaxQuestions
    /\ quizQuestions' = Append(quizQuestions,
            Question(NoId, <<>>, "multiple-choice", BlankOptions, Num(0), 1))
    /\ UNCHANGED lastCall
    /\ UNCHANGED <<teacherSelectedCourse, teacherSelectedQuiz, quizVars, thrown,
                   progressVars, studentVars, sessionVars, viewVars>>

\* questions.splice(index, 1) with index counted from 1
Splice(questions, index) ==
    SubSeq(questions, 1, index - 1) \o SubSeq(questions, index + 1, Len(questions))

\* TeacherComponent.removeQuizQuestion
removeQuizQuestion(index) ==
    /\ index \in 1..Len(quizQuestions)
    /\ quizQuestions' = Splice(quizQuestions, index)
    /\ UNCHANGED lastCall
    /\ UNCHANGED <<teacherSelectedCourse, teacherSelectedQuiz, quizVars, thrown,
                   progressVars, studentVars, sessionVars, viewVars>>

\* TeacherComponent.updateQuestionType
updateQuestionType(index, type) ==
    /\ index \in 1..Len(quizQuestions)
    /\ quizQuestions' = [quizQuestions EXCEPT
            ![index].type = type,
            ![index].options = IF type = "text" THEN <<>> ELSE BlankOptions]
    /\ UNCHANGED lastCall
    /\ UNCHANGED <<teacherSelectedCourse, teacherSelectedQuiz, quizVars, thrown,
                   progressVars, studentVars, sessionVars, viewVars>>

\* the teacher fills in the inputs of one question of the editor: its text,
\* the options it shows, the correct answer and the points
fillQuestion(index, texts) ==
    /\ index \in 1..Len(quizQuestions)
    /\ LET q == quizQuestions[index]
       IN  quizQuestions' = [quizQuestions EXCEPT ![index] =
               IF q.type = "multiple-choice"
               THEN Question(q.id, <<"x">>, q.type,
                             [k \in DOMAIN q.options |-> texts[k]],
                             Num(markedCorrect(texts)), 2)
               ELSE Question(q.id, <<"x">>, q.type, q.options, Str(Paris), 1)]
    /\ UNCHANGED lastCall
    /\ UNCHANGED <<teacherSelectedCourse, teacherSelectedQuiz, quizVars, thrown,
                   progressVars, studentVars, sessionVars, viewVars>>

\* q.options.filter(o => o.trim() !== '')
RECURSIVE NonBlank(_)
NonBlank(options) ==
    IF options = <<>> THEN <<>>
    ELSE IF Trim(Head(options)) # <<>>
         THEN <<Head(options)>> \o NonBlank(Tail(options))
         ELSE NonBlank(Tail(options))

\* typeof q.correctAnswer === 'number' ? q.correctAnswer : parseInt(...)
correctAnswerNum(q) ==
    IF q.correctAnswer.t = "number" THEN q.correctAnswer ELSE ParseInt(q.correctAnswer)

\* the validation loop of createQuiz lets the question pass
questionValid(q) ==
    /\ Trim(q.question) # <<>>
    /\ q.points > 0
    /\ IF q.type = "multiple-choice"
       THEN /\ Len(NonBlank(q.options)) >= 2
            /\ correctAnswerNum(q).t = "number"
            /\ correctAnswerNum(q).n >= 0
            /\ correctAnswerNum(q).n < Len(q.options)
       ELSE /\ Truthy(q.correctAnswer)
            /\ Trim(JSToString(q.correctAnswer)) # <<>>

\* questions.map((q, index) => ({...q, id: q.id || index.toString(), options: ...}))
questionsData(questions) ==
    [i \in 1..Len(questions) |->
        [questions[i] EXCEPT
            !.id = IF questions[i].id # NoId THEN questions[i].id
                   ELSE NatToString(i - 1),
            !.options = IF questions[i].type = "multiple-choice"
                        THEN NonBlank(questions[i].options) ELSE <<>>]]

\* TeacherComponent.createQuiz: the save button of the editor. formValid is
\* the validity of title, description and passing score; newId is the id
\* addDoc gives a new document. After a save the quizzes of the
\* course are subscribed to.
Teacher_createQuiz(formValid, passingScore, newId) ==
    LET unchangedStore == UNCHANGED <<quizVars, thrown, progressVars, studentVars, sessionVars, viewVars>>
        rejected(why) ==
            /\ lastCall' = Call("Teacher.createQuiz", NoQuiz, why)
            /\ UNCHANGED <<teacherVars, sessionVars, viewVars>>
            /\ unchangedStore
        reset ==
            /\ quizQuestions' = <<>>
            /\ teacherSelectedQuiz' = NoQuiz
            /\ subscriptions' = subscriptions \cup
                    {Subscription("teacher", "quizzes", teacherSelectedCourse)}
            /\ UNCHANGED <<teacherSelectedCourse, componentUser, destroyed, viewSignals,
                           componentCalls, lateUpdates>>
    IN  IF ~formValid THEN rejected("form invalid")
        ELSE IF Len(quizQuestions) = 0 THEN rejected("no questions")
        ELSE IF \E i \in 1..Len(quizQuestions) : ~questionValid(quizQuestions[i])
             THEN rejected("question invalid")
        ELSE IF teacherSelectedCourse = "none" THEN rejected("no course")
        ELSE IF teacherSelectedQuiz # NoQuiz
             THEN /\ updateQuiz(teacherSelectedQuiz,
                        Updates(TRUE, questionsData(quizQuestions), passingScore))
                  /\ IF teacherSelectedQuiz \in DOMAIN quizzes
                     THEN /\ reset
                          /\ lastCall' = Call("Teacher.createQuiz", teacherSelectedQuiz,
                                              "updated")
                     ELSE /\ UNCHANGED <<teacherVars, sessionVars, viewVars>>
                          /\ lastCall' = Call("Teacher.createQuiz", teacherSelectedQuiz,
                                              "thrown")
             ELSE /\ createQuiz(newId, teacherSelectedCourse,
                                questionsData(quizQuestions), passingScore)
                  /\ reset
                  /\ lastCall' = Call("Teacher.createQuiz", newId, "created")

\* TeacherComponent.editQuiz with a quiz of the list the component shows
editQuiz(quizId) ==
    /\ quizId \in DOMAIN quizzes
    /\ teacherSelectedCourse = quizzes[quizId].courseId
    /\ teacherSelectedQuiz' = quizId
    /\ quizQuestions' = [i \in 1..Len(quizzes[quizId].questions) |->
            [quizzes[quizId].questions[i] EXCEPT
                !.options = IF quizzes[quizId].questions[i].type = "multiple-choice"
                            THEN @ ELSE <<>>]]
    /\ UNCHANGED lastCall
    /\ UNCHANGED <<teacherSelectedCourse, quizVars, thrown, progressVars, studentVars, sessionVars, viewVars>>

\* TeacherComponent.cancelEditQuiz
cancelEditQuiz ==
    /\ teacherSelectedQuiz' = NoQuiz
    /\ quizQuestions' = <<>>
    /\ UNCHANGED lastCall
    /\ UNCHANGED <<teacherSelectedCourse, quizVars, thrown, progressVars, studentVars, sessionVars, viewVars>>

TeacherQuizIds == {"q1"}

InitTeacher ==
    /\ quizIdle
    /\ progressIdle
    /\ teacherIdle
    /\ studentIdle
    /\ sessionIdle
    /\ mounted("teacher")
    /\ lastCall = NoCall
    /\ thrown = {}

NextTeacher ==
    \/ \E c \in Courses : Teacher_selectCourse(c)
    \/ addQuizQuestion
    \/ \E i \in 1..MaxQuestions : removeQuizQuestion(i)
    \/ \E i \in 1..MaxQuestions, type \in {"multiple-choice", "text"} :
          updateQuestionType(i, type)
    \/ \E i \in 1..MaxQuestions, texts \in OptionLayouts : fillQuestion(i, texts)
    \/ \E formValid \in BOOLEAN, id \in TeacherQuizIds :
          Teacher_createQuiz(formValid, 60, id)
    \/ \E id \in TeacherQuizIds : editQuiz(id)
    \/ cancelEditQuiz

SpecTeacher == InitTeacher /\ [][NextTeacher]_vars

\* C8: in every quiz saved through the teacher's editor, no two questions
\* have the same identifier, whatever editQuiz, addQuizQuestion and
\* removeQuizQuestion calls came before the save.
C8_SavedQuestionIdsUnique ==
    \A id \in DOMAIN quizzes :
        \A i, j \in 1..Len(quizzes[id].questions) :
            i # j => quizzes[id].questions[i].id # quizzes[id].questions[j].id

----------------------------------------------------------------------------
(* StudentComponent: taking a quiz. The signed-in user is Learner. *)

MaxSubmissions == 2
MaxStartCalls == 1

\* the documents the query of CourseService.getQuizSubmission matches
submissionsOf(quizId, studentId) ==
    { quizSubmissions[i] : i \in { j \in 1..Len(quizSubmissions) :
          /\ quizSubmissions[j].quizId = quizId
          /\ quizSubmissions[j].studentId = studentId } }

\* CourseService.getQuizSubmission: docs[0] of a query without an order, or null
getQuizSubmission(quizId, studentId) ==
    IF submissionsOf(quizId, studentId) = {} THEN {NoSubmission}
    ELSE submissionsOf(quizId, studentId)

\* StudentComponent.isEnrolled
isEnrolled(courseId) == courseId \in enrollmentsSig

\* the subscription of loadEnrollments delivers the learner's enrollments
enrollmentsEmit ==
    /\ Subscription("student", "enrollments", AllCourses) \in subscriptions
    /\ enrollmentsSig' = { enrollments[e].courseId : e \in
            { x \in 1..Len(enrollments) : enrollments[x].studentId = Learner } }
    /\ enrollmentsSig' # enrollmentsSig
    /\ lateUpdates' = IF destroyed["student"] \in {"fired", "completed"}
                      THEN lateUpdates \cup
                             {Subscription("student", "enrollments", AllCourses)}
                      ELSE lateUpdates
    /\ UNCHANGED lastCall
    /\ UNCHANGED <<selectedCourse, selectedQuiz, quizForm, showQuiz, showQuizResults,
                   currentQuizSubmission, startCalls, quizVars, thrown, progressVars,
                   teacherVars, sessionVars, componentUser, destroyed, subscriptions,
                   viewSignals, componentCalls>>

\* StudentComponent.selectCourse: with a user set, the lessons, completed
\* lessons, quizzes and submissions of the course are subscribed to
Student_selectCourse(courseId) ==
    /\ selectedCourse' = courseId
    /\ subscriptions' =
          IF componentUser["student"] = Nobody THEN subscriptions
          ELSE subscriptions \cup
                 { Subscription("student", signal, courseId) :
                     signal \in {"lessons", "completedLessons", "quizzes",
                                 "quizSubmissions"} }
    /\ UNCHANGED lastCall
    /\ UNCHANGED <<enrollmentsSig, selectedQuiz, quizForm, showQuiz, showQuizResults,
                   currentQuizSubmission, startCalls, quizVars, thrown, progressVars,
                   teacherVars, sessionVars, componentUser, destroyed, viewSignals,
                   componentCalls, lateUpdates>>

\* StudentComponent.startQuiz up to "await this.courseService.getQuizSubmission",
\* called with a quiz of the list selectCourse loads (so a user and a course
\* are set): the early return of a learner who is not enrolled, or the query
\* is sent. stored records whether the store held a submission of the learner
\* for the quiz when the call was made.
Student_startQuiz(quizId) ==
    /\ quizId \in DOMAIN quizzes
    /\ quizzes[quizId].courseId = selectedCourse
    /\ IF ~isEnrolled(selectedCourse)
       THEN /\ lastCall' = Call("Student.startQuiz", quizId, "not enrolled")
            /\ UNCHANGED startCalls
       ELSE /\ InFlight(startCalls) < MaxStartCalls
            /\ startCalls' = Started(startCalls,
                   [quizId |-> quizId,
                    stored |-> submissionsOf(quizId, Learner) # {}])
            /\ lastCall' = Call("Student.startQuiz", quizId, "getQuizSubmission")
    /\ UNCHANGED <<selectedCourse, enrollmentsSig, selectedQuiz, quizForm, showQuiz,
                   showQuizResults, currentQuizSubmission, quizVars, thrown,
                   progressVars, teacherVars, sessionVars, viewVars>>

\* question.id || index.toString() of startQuiz   (index is zero-based)
formControlKey(question, index) ==
    IF question.id # NoId THEN question.id ELSE NatToString(index)

\* the form group startQuiz builds: one control per key, each ''
formControls(quiz) ==
    [key \in { formControlKey(quiz.questions[i], i - 1) : i \in 1..Len(quiz.questions) }
        |-> Str(<<>>)]

\* startQuiz with the stored submission shown and the form opened as well
startQuiz_resumeFallThrough ==
    \E c \in BagToSet(startCalls) :
    \E existingSubmission \in getQuizSubmission(c.quizId, Learner) :
    /\ startCalls' = Returned(startCalls, c)
    /\ IF existingSubmission # NoSubmission
       THEN /\ currentQuizSubmission' = existingSubmission
            /\ showQuizResults' = TRUE
            /\ selectedQuiz' = c.quizId
            /\ quizForm' = formControls(quizzes[c.quizId])
            /\ showQuiz' = TRUE
            /\ lastCall' = Call("Student.startQuiz", c.quizId,
                                IF c.stored THEN "stored result shown" ELSE "result shown")
       ELSE /\ selectedQuiz' = c.quizId
            /\ quizForm' = formControls(quizzes[c.quizId])
            /\ showQuiz' = TRUE
            /\ lastCall' = Call("Student.startQuiz", c.quizId, "form opened")
            /\ UNCHANGED <<currentQuizSubmission, showQuizResults>>
    /\ UNCHANGED <<selectedCourse, enrollmentsSig, quizVars, thrown, progressVars,
                   teacherVars, sessionVars, viewVars>>

\* StudentComponent.startQuiz from the answer of getQuizSubmission on: the
\* stored submission is shown and the call returns, or the form is opened
startQuiz_resume ==
    \E c \in BagToSet(startCalls) :
    \E existingSubmission \in getQuizSubmission(c.quizId, Learner) :
    /\ startCalls' = Returned(startCalls, c)
    /\ IF existingSubmission # NoSubmission
       THEN /\ currentQuizSubmission' = existingSubmission
            /\ showQuizResults' = TRUE
            /\ lastCall' = Call("Student.startQuiz", c.quizId,
                                IF c.stored THEN "stored result shown" ELSE "result shown")
            /\ UNCHANGED <<selectedQuiz, quizForm, showQuiz>>
       ELSE /\ selectedQuiz' = c.quizId
            /\ quizForm' = formControls(quizzes[c.quizId])
            /\ showQuiz' = TRUE
            /\ lastCall' = Call("Student.startQuiz", c.quizId, "form opened")
            /\ UNCHANGED <<currentQuizSubmission, showQuizResults>>
    /\ UNCHANGED <<selectedCourse, enrollmentsSig, quizVars, thrown, progressVars,
                   teacherVars, sessionVars, viewVars>>

\* what the learner enters in a control of the form
FormValues == { Str(<<"1">>), Str(Paris) }

\* the learner answers one question of the open form
enterAnswer(key, value) ==
    /\ showQuiz
    /\ key \in DOMAIN quizForm
    /\ quizForm' = [quizForm EXCEPT ![key] = value]
    /\ UNCHANGED lastCall
    /\ UNCHANGED <<selectedCourse, enrollmentsSig, selectedQuiz, showQuiz,
                   showQuizResults, currentQuizSubmission, startCalls, quizVars,
                   thrown, progressVars, teacherVars, sessionVars, viewVars>>

\* Validators.required on every control
formInvalid(form) == \E key \in DOMAIN form : form[key] = Str(<<>>)

\* quiz.questions.find(q => (q.id || quiz.questions.indexOf(q).toString()) === key):
\* the position of the first such question, 0 when there is none
findQuestion(quiz, key) ==
    LET found == { i \in 1..Len(quiz.questions) :
                     formControlKey(quiz.questions[i], i - 1) = key }
    IN  IF found = {} THEN 0 ELSE CHOOSE i \in found : \A j \in found : i <= j

\* the answers submitQuiz of the component builds from the form values
formAnswers(quiz, form) ==
    [key \in DOMAIN form |->
        IF /\ findQuestion(quiz, key) # 0
           /\ quiz.questions[findQuestion(quiz, key)].type = "multiple-choice"
        THEN ParseInt(form[key])
        ELSE form[key]]

\* StudentComponent.submitQuiz up to "await this.courseService.submitQuiz(...)"
Student_submitQuiz ==
    IF formInvalid(quizForm)
    THEN /\ lastCall' = Call("Student.submitQuiz", selectedQuiz, "form invalid")
         /\ UNCHANGED <<quizVars, thrown, progressVars, teacherVars, studentVars, sessionVars, viewVars>>
    ELSE IF selectedCourse = "none" \/ selectedQuiz = NoQuiz
    THEN /\ lastCall' = Call("Student.submitQuiz", selectedQuiz, "nothing selected")
         /\ UNCHANGED <<quizVars, thrown, progressVars, teacherVars, studentVars, sessionVars, viewVars>>
    ELSE /\ Len(quizSubmissions) + InFlight(calls) < MaxSubmissions
         /\ submitQuiz_getQuiz(selectedQuiz, selectedCourse, Learner,
                               formAnswers(quizzes[selectedQuiz], quizForm),
                               Form(quizForm))

\* StudentComponent.submitQuiz after the service call: the graded submission
\* is read back and shown, and the learner's submissions in the course are
\* subscribed to
submitQuiz_showResult ==
    \E c \in BagToSet(calls) :
    \E submission \in getQuizSubmission(c.quizId, c.studentId) :
    /\ c.pc = "getQuizSubmission"
    /\ calls' = Returned(calls, c)
    /\ currentQuizSubmission' = submission
    /\ showQuiz' = FALSE
    /\ showQuizResults' = TRUE
    /\ subscriptions' = subscriptions \cup
            {Subscription("student", "quizSubmissions", c.courseId)}
    /\ lastCall' = Call("Student.submitQuiz", c.quizId, "result shown")
    /\ UNCHANGED <<quizzes, quizSubmissions, submittedForms, thrown, selectedCourse,
                   enrollmentsSig, selectedQuiz, quizForm, startCalls, progressVars,
                   teacherVars, sessionVars, componentUser, destroyed, viewSignals,
                   componentCalls, lateUpdates>>

\* StudentComponent.closeQuiz
closeQuiz ==
    /\ selectedQuiz' = NoQuiz
    /\ showQuiz' = FALSE
    /\ showQuizResults' = FALSE
    /\ currentQuizSubmission' = NoSubmission
    /\ quizForm' = << >>
    /\ UNCHANGED lastCall
    /\ UNCHANGED <<selectedCourse, enrollmentsSig, startCalls, quizVars, thrown,
                   progressVars, teacherVars, sessionVars, viewVars>>

\* CourseService.submitQuiz called by another caller than the component
Service_submitQuiz(quizId, courseId, studentId, answers) ==
    /\ Len(quizSubmissions) + InFlight(calls) < MaxSubmissions
    /\ submitQuiz_getQuiz(quizId, courseId, studentId, answers, NoForm)

\* the quizzes the learner takes: keys "a" and "1"; and two questions under
\* the one key "1"
StudentQuizzes ==
    { << Question(<<"a">>, <<"x">>, "multiple-choice", <<<<"a">>, <<"i">>>>, Num(1), 2),
         Question(NoId, <<"x">>, "text", <<>>, Str(Paris), 1) >>,
      << Question(<<"1">>, <<"x">>, "multiple-choice", <<<<"a">>, <<"i">>>>, Num(1), 2),
         Question(NoId, <<"x">>, "text", <<>>, Str(Paris), 1) >> }

\* createQuiz has stored one quiz and enrollStudent has run for the learner
InitStudent ==
    /\ \E qs \in StudentQuizzes : quizzes = ("q1" :> createQuizData("c1", qs, 60))
    /\ quizSubmissions = <<>>
    /\ submittedForms = <<>>
    /\ calls = EmptyBag
    /\ lessons = {}
    /\ lessonsCreated = 0
    /\ lessonCompletions = [x \in LessonIds \X Courses \X Students |-> 0]
    /\ enrollments = <<enrollmentData("c1", Learner)>>
    /\ lessonCalls = EmptyBag
    /\ enrollCalls = EmptyBag
    /\ teacherIdle
    /\ studentIdle
    /\ sessionIdle
    /\ studentLoaded
    /\ lastCall = NoCall
    /\ thrown = {}

NextStudent ==
    \/ enrollmentsEmit
    \/ \E c \in Courses : Student_selectCourse(c)
    \/ Student_startQuiz("q1")
    \/ startQuiz_resume
    \/ \E key \in {<<"1">>, <<"a">>}, value \in FormValues : enterAnswer(key, value)
    \/ Student_submitQuiz
    \/ submitQuiz_addDoc
    \/ submitQuiz_showResult
    \/ closeQuiz
    \/ Service_submitQuiz("q1", "c1", Learner, [key \in quizKeys(quizzes["q1"]) |-> Num(1)])

SpecStudent == InitStudent /\ [][NextStudent]_vars

\* C5: the quizSubmissions store holds at most one record for each
\* (quiz, learner) pair, whatever startQuiz and submitQuiz operations ran,
\* overlapping or not, through the component or directly on the service.
C5_AtMostOneSubmissionPerQuizAndLearner ==
    \A i, j \in 1..Len(quizSubmissions) :
        (/\ quizSubmissions[i].quizId = quizSubmissions[j].quizId
         /\ quizSubmissions[i].studentId = quizSubmissions[j].studentId) => i = j

\* this step ends a startQuiz call for quizId by its early return
startQuizReturnsEarly(quizId) ==
    /\ lastCall' # lastCall
    /\ lastCall' = Call("Student.startQuiz", quizId, "not enrolled")

\* this step ends the startQuiz call c, which got past the early returns
startQuizResumes(c) == startCalls' = Returned(startCalls, c)

\* the stored submission is shown, no form is opened, nothing is rewritten
storedResultShown(quizId) ==
    /\ showQuizResults'
    /\ currentQuizSubmission' \in submissionsOf(quizId, Learner)
    /\ UNCHANGED <<selectedQuiz, showQuiz, quizSubmissions>>

\* C6 as stated: every startQuiz call for a quiz for which the store already
\* held a submission of the learner ends with that submission shown as the
\* result, no answer form opened and the stored submissions untouched.
C6_StartQuizShowsStoredResult ==
    [][ /\ \A quizId \in DOMAIN quizzes :
              (startQuizReturnsEarly(quizId) /\ submissionsOf(quizId, Learner) # {})
                  => storedResultShown(quizId)
        /\ \A c \in BagToSet(startCalls) :
              (startQuizResumes(c) /\ c.stored) => storedResultShown(c.quizId)
      ]_vars

\* C6 amended: every startQuiz call made while the enrollments list shows the
\* learner enrolled in the selected course, for a quiz for which the store
\* already held a submission of the learner, ends with that submission shown
\* as the result, no answer form opened and the stored submissions untouched.
C6_EnrolledStartQuizShowsStoredResult ==
    [][ \A c \in BagToSet(startCalls) :
            (startQuizResumes(c) /\ c.stored) => storedResultShown(c.quizId)
      ]_vars

\* a startQuiz call made when a submission was stored has shown it, with no
\* form open
C6_Witness ==
    /\ lastCall = Call("Student.startQuiz", "q1", "stored result shown")
    /\ showQuizResults
    /\ currentQuizSubmission \in submissionsOf("q1", Learner)
    /\ ~showQuiz
    /\ selectedQuiz = NoQuiz

\* the question keys of the quiz are distinct
SpecKeysDistinct(quiz) ==
    \A i, j \in 1..Len(quiz.questions) :
        SpecKey(quiz.questions[i], i) = SpecKey(quiz.questions[j], j) => i = j

\* the answer the learner entered for a question, as the component passes it on
Entered(question, value) ==
    IF IsMultipleChoice(question) THEN ParseInt(value) ELSE value

\* the points of the first n questions whose entered answer is correct
RECURSIVE SpecFormScore(_, _, _)
SpecFormScore(quiz, values, n) ==
    IF n = 0 THEN 0
    ELSE SpecFormScore(quiz, values, n - 1)
         + (IF questionCorrect(quiz.questions[n],
                   Entered(quiz.questions[n], values[SpecKey(quiz.questions[n], n)]))
            THEN quiz.questions[n].points ELSE 0)

\* C9: the form stores each answer under the question's id, or its
\* zero-based position as a string, and submitQuiz looks it up under that key:
\* for every submission made through the form of a quiz with distinct keys,
\* the form has exactly the keys of the questions, the stored answer of each
\* question is what the learner entered for it, and the score counts each
\* question by the answer entered for it.
C9_FormKeyIsGradingKey ==
    \A s \in 1..Len(quizSubmissions) :
        LET quiz == quizzes[quizSubmissions[s].quizId]
            values == submittedForms[s].values
        IN  (submittedForms[s].via = "component" /\ SpecKeysDistinct(quiz)) =>
              /\ DOMAIN values =
                    { SpecKey(quiz.questions[i], i) : i \in 1..Len(quiz.questions) }
              /\ \A i \in 1..Len(quiz.questions) :
                    Lookup(quizSubmissions[s].answers, SpecKey(quiz.questions[i], i))
                      = Entered(quiz.questions[i], values[SpecKey(quiz.questions[i], i)])
              /\ quizSubmissions[s].score
                    = SpecFormScore(quiz, values, Len(quiz.questions))

\* a form submission of the quiz with keys "a" and "1" is stored with every
\* question counted as correct
C9_Witness ==
    \E s \in 1..Len(quizSubmissions) :
        /\ submittedForms[s].via = "component"
        /\ quizzes["q1"].questions[1].id = <<"a">>
        /\ quizSubmissions[s].score = 3

----------------------------------------------------------------------------
(* Free-text grading, stated without the grading code *)

\* the string form of a number or a string
SpecStringForm(v) == IF v.t = "number" THEN IntToString(v.n) ELSE v.s

\* the positions of s that hold something else than white space
SpecInk(s) == { i \in 1..Len(s) : s[i] # " " }

\* s from its first to its last character that is not white space
SpecTrimmed(s) ==
    IF SpecInk(s) = {} THEN <<>>
    ELSE SubSeq(s, CHOOSE i \in SpecInk(s) : \A j \in SpecInk(s) : i <= j,
                   CHOOSE i \in SpecInk(s) : \A j \in SpecInk(s) : i >= j)

\* two characters that differ at most in case
SpecSameLetter(a, b) ==
    \/ a = b
    \/ \E k \in 1..Len(Upper) : {a, b} = {Upper[k], Lower[k]}

\* equal after conversion to strings, lower-casing and trimming
SpecTextEqual(a, b) ==
    LET x == SpecTrimmed(SpecStringForm(a))
        y == SpecTrimmed(SpecStringForm(b))
    IN  /\ Len(x) = Len(y)
        /\ \A i \in 1..Len(x) : SpecSameLetter(x[i], y[i])

\* the points of the first n questions, a free-text question counted when its
\* answer equals the correct answer in the sense above
RECURSIVE SpecTextScore(_, _, _)
SpecTextScore(quiz, answers, n) ==
    IF n = 0 THEN 0
    ELSE SpecTextScore(quiz, answers, n - 1)
         + (IF IF IsMultipleChoice(quiz.questions[n])
                  THEN SpecAnswer(quiz, answers, n) = quiz.questions[n].correctAnswer
                  ELSE SpecTextEqual(SpecAnswer(quiz, answers, n),
                                     quiz.questions[n].correctAnswer)
            THEN quiz.questions[n].points ELSE 0)

\* C11: a free-text question is judged correct if and only if the submitted
\* answer and the correct answer are equal after conversion to strings,
\* lower-casing and trimming: the stored score counts exactly those free-text
\* questions (next to the multiple-choice questions answered with the stored
\* correct value).
C11_TextJudgedByFoldedEquality ==
    \A s \in 1..Len(quizSubmissions) :
        LET quiz == quizzes[quizSubmissions[s].quizId]
        IN  quizSubmissions[s].score
              = SpecTextScore(quiz, quizSubmissions[s].answers, Len(quiz.questions))

\* " Paris " has been graded against "paris" and 2 against the number 2, and
\* both were counted
C11_Witness ==
    /\ Len(quizSubmissions) = 1
    /\ quizzes["q1"].questions
         = << Question(NoId, <<"x">>, "text", <<>>, Str(Paris), 1),
              Question(<<"i">>, <<"x">>, "text", <<>>, Num(2), 2) >>
    /\ quizSubmissions[1].answers
         = (<<"0">> :> Str(<<" ", "P", "a", "r", "i", "s", " ">>)) @@ (<<"i">> :> Str(<<"2">>))
    /\ quizSubmissions[1].score = 3

\* the points of the first n questions, a free-text question answered with
\* the empty string counted as incorrect and every other question as graded
RECURSIVE SpecEmptyAnswerScore(_, _, _)
SpecEmptyAnswerScore(quiz, answers, n) ==
    IF n = 0 THEN 0
    ELSE SpecEmptyAnswerScore(quiz, answers, n - 1)
         + (IF /\ ~(/\ ~IsMultipleChoice(quiz.questions[n])
                    /\ SpecAnswer(quiz, answers, n) = Str(<<>>))
               /\ questionCorrect(quiz.questions[n], SpecAnswer(quiz, answers, n))
            THEN quiz.questions[n].points ELSE 0)

\* C12: a free-text question answered with the empty string is graded
\* incorrect and earns 0 points, whatever its stored correct answer is: the
\* stored score counts no such question.
C12_EmptyTextAnswerIsIncorrect ==
    \A s \in 1..Len(quizSubmissions) :
        LET quiz == quizzes[quizSubmissions[s].quizId]
        IN  quizSubmissions[s].score
              = SpecEmptyAnswerScore(quiz, quizSubmissions[s].answers,
                                     Len(quiz.questions))

\* the positions of the questions submitQuiz judges correct
SpecJudgedCorrect(quiz, answers) ==
    { i \in 1..Len(quiz.questions) :
        questionCorrect(quiz.questions[i], SpecAnswer(quiz, answers, i)) }

\* the points of the questions at the positions in the set, each taken once
RECURSIVE SpecPointsOver(_, _)
SpecPointsOver(quiz, positions) ==
    IF positions = {} THEN 0
    ELSE LET i == CHOOSE x \in positions : TRUE
         IN  quiz.questions[i].points + SpecPointsOver(quiz, positions \ {i})

\* C13: the stored score is the sum of question.points over exactly the
\* questions judged correct, each question giving all of its points or none
\* and counted once.
C13_ScoreIsSumOverCorrectQuestions ==
    \A s \in 1..Len(quizSubmissions) :
        LET quiz == quizzes[quizSubmissions[s].quizId]
        IN  quizSubmissions[s].score
              = SpecPointsOver(quiz, SpecJudgedCorrect(quiz, quizSubmissions[s].answers))

\* a submission to a quiz of two questions is stored in which the second
\* question alone was judged correct and alone was counted
C13_Witness ==
    \E s \in 1..Len(quizSubmissions) :
        LET quiz == quizzes[quizSubmissions[s].quizId]
        IN  /\ Len(quiz.questions) = 2
            /\ SpecJudgedCorrect(quiz, quizSubmissions[s].answers) = {2}
            /\ quiz.questions[1].points # quiz.questions[2].points
            /\ quizSubmissions[s].score = quiz.questions[2].points

----------------------------------------------------------------------------
(* Percentage and pass mark: one stored quiz of two questions with points   *)
(* of their own, one direct call of submitQuiz                              *)

MaxPoints == 23

\* the pass marks of the stored quizzes
PassingScores == {58, 60}

\* a quiz of two multiple-choice questions, each with correct answer 1
PointsQuiz(first, second) ==
    << Question(NoId, <<"x">>, "multiple-choice", <<<<"a">>, <<"i">>>>, Num(1), first),
       Question(NoId, <<"x">>, "multiple-choice", <<<<"a">>, <<"i">>>>, Num(1), second) >>

\* createQuiz has stored one quiz
InitPercent ==
    /\ \E first \in 1..MaxPoints, second \in 1..MaxPoints, passingScore \in PassingScores :
          quizzes = ("q1" :> createQuizData("c1", PointsQuiz(first, second), passingScore))
    /\ quizSubmissions = <<>>
    /\ submittedForms = <<>>
    /\ calls = EmptyBag
    /\ thrown = {}
    /\ progressIdle
    /\ teacherIdle
    /\ studentIdle
    /\ sessionIdle
    /\ viewIdle
    /\ lastCall = NoCall

\* submitQuiz called once, each question answered right (1) or wrong (0)
PercentCall ==
    /\ calls = EmptyBag /\ quizSubmissions = <<>>
    /\ \E answers \in [quizKeys(quizzes["q1"]) -> {Num(0), Num(1)}] :
          submitQuiz_getQuiz("q1", "c1", "s1", answers, NoForm)

NextPercent == PercentCall \/ submitQuiz_addDoc

SpecPercent == InitPercent /\ [][NextPercent]_vars

\* score * 100 / totalPoints rounded to the nearest integer, halves up
SpecHalfUp(score, totalPoints) == (200 * score + totalPoints) \div (2 * totalPoints)

\* C14: for totalPoints > 0 the stored percentage is score * 100 / totalPoints
\* rounded to the nearest integer with halves rounded up, and isPassed holds
\* exactly when that percentage is at least the quiz's passingScore.
C14_PercentageRoundedHalfUp ==
    \A s \in 1..Len(quizSubmissions) :
        LET quiz == quizzes[quizSubmissions[s].quizId]
        IN  quiz.totalPoints > 0 =>
              /\ quizSubmissions[s].percentage
                   = Num(SpecHalfUp(quizSubmissions[s].score, quiz.totalPoints))
              /\ quizSubmissions[s].isPassed
                   = (SpecHalfUp(quizSubmissions[s].score, quiz.totalPoints)
                        >= quiz.passingScore)

----------------------------------------------------------------------------
(* Point values of either sign: CourseService.createQuiz stores the         *)
(* questions it is given, whatever their points                             *)

\* the points of the questions handed to createQuiz
SignedPoints == {-1, 1, 2}

InitSignedPoints ==
    /\ \E first \in SignedPoints, second \in SignedPoints, passingScore \in PassingScores :
          quizzes = ("q1" :> createQuizData("c1", PointsQuiz(first, second), passingScore))
    /\ quizSubmissions = <<>>
    /\ submittedForms = <<>>
    /\ calls = EmptyBag
    /\ thrown = {}
    /\ progressIdle
    /\ teacherIdle
    /\ studentIdle
    /\ sessionIdle
    /\ viewIdle
    /\ lastCall = NoCall

SpecSignedPoints == InitSignedPoints /\ [][NextPercent]_vars

----------------------------------------------------------------------------
(* Course progress: what updateCourseProgress writes, and when *)

\* the lessons of a course
lessonsOf(courseId) == { l \in lessons : l.courseId = courseId }

\* C16: a call of updateCourseProgress that finds the course without lessons
\* ends there and writes nothing: every enrollment's stored progress is what
\* it was.
C16_ZeroLessonsLeaveProgressUnchanged ==
    [][ \A c \in BagToSet(lessonCalls) :
           ( /\ c.pc = "getLessons"
             /\ lessonsOf(c.courseId) = {}
             /\ CopiesIn(c, lessonCalls') < CopiesIn(c, lessonCalls) )
           => /\ enrollments' = enrollments
              /\ lessonCalls' = Returned(lessonCalls, c) ]_vars

\* a call of updateCourseProgress is about to read the lessons of a course
\* that has none, and the enrollment it found has a stored progress of 100
C16_Witness ==
    \E c \in BagToSet(lessonCalls) :
        /\ c.pc = "getLessons"
        /\ lessonsOf(c.courseId) = {}
        /\ enrollments[c.enrollment].progress = 100


MaxCourseLessons == 4

\* a course whose lessons have been created, both students enrolled
InitCourseProgress ==
    /\ \E n \in 1..MaxCourseLessons :
          /\ lessons = { [id |-> l, courseId |-> "c1"] : l \in 1..n }
          /\ lessonsCreated = n
    /\ lessonCompletions = [x \in (1..MaxCourseLessons) \X Courses \X Students |-> 0]
    /\ enrollments = <<enrollmentData("c1", "s2"), enrollmentData("c1", Learner)>>
    /\ lessonCalls = EmptyBag
    /\ enrollCalls = EmptyBag
    /\ quizIdle
    /\ teacherIdle
    /\ studentIdle
    /\ sessionIdle
    /\ viewIdle
    /\ lastCall = NoCall
    /\ thrown = {}

\* the learner completes a lesson once the call before has returned
completeLessonInTurn ==
    /\ lessonCalls = EmptyBag
    /\ \E l \in 1..MaxCourseLessons : completeLesson_getLessonCompletion(l, "c1", Learner)

NextCourseProgress ==
    \/ completeLessonInTurn
    \/ completeLesson_addDoc
    \/ updateCourseProgress_getEnrollment
    \/ updateCourseProgress_getLessons
    \/ updateCourseProgress_getCompletions
    \/ updateCourseProgress_updateProgress

SpecCourseProgress == InitCourseProgress /\ [][NextCourseProgress]_vars

\* progress is an integer nearest to completed * 100 / total
SpecNearest(progress, completed, total) ==
    /\ 2 * progress * total - 200 * completed <= total
    /\ 200 * completed - 2 * progress * total <= total

\* C17: with totalLessons > 0 and the learner enrolled, the write of
\* updateCourseProgress sets the progress of the learner's enrollment in that
\* course to completedLessons * 100 / totalLessons rounded to the nearest
\* integer, and changes nothing else in the enrollments.
C17_ProgressWrittenToOwnEnrollment ==
    [][ \A c \in BagToSet(lessonCalls) :
           ( /\ c.pc = "updateProgress"
             /\ CopiesIn(c, lessonCalls') < CopiesIn(c, lessonCalls) )
           => \E e \in enrollmentsOf(c.courseId, c.studentId) :
                 /\ c.totalLessons > 0
                 /\ SpecNearest(enrollments'[e].progress, c.completedLessons, c.totalLessons)
                 /\ enrollments' = [enrollments EXCEPT
                                       ![e].progress = enrollments'[e].progress] ]_vars

\* two of three lessons completed: the learner's progress is 67, the other
\* student's is still 0
C17_Witness ==
    /\ lessonCalls = EmptyBag
    /\ Cardinality(lessonsOf("c1")) = 3
    /\ completedCount("c1", Learner) = 2
    /\ \E e \in enrollmentsOf("c1", Learner) : enrollments[e].progress = 67
    /\ \A e \in enrollmentsOf("c1", "s2") : enrollments[e].progress = 0


\* the same course with calls of completeLesson that do not wait for each
\* other: the learner's clicks on several lessons
completeLessonAtAnyTime ==
    \E l \in 1..MaxCourseLessons : completeLesson_getLessonCompletion(l, "c1", Learner)

NextRacingProgress ==
    \/ completeLessonAtAnyTime
    \/ completeLesson_addDoc
    \/ updateCourseProgress_getEnrollment
    \/ updateCourseProgress_getLessons
    \/ updateCourseProgress_getCompletions
    \/ updateCourseProgress_updateProgress

SpecRacingProgress == InitCourseProgress /\ [][NextRacingProgress]_vars

\* C18: for an enrolled learner in a course with at least one lesson, once no
\* call of completeLesson is in flight the stored progress is the rounded
\* percentage of the learner's completion records among the course's lessons.
\* It is stated for the stores in which no lesson has two completion records
\* of the learner: the calls that interleave are calls for different lessons.
C18_ProgressFollowsCompletions ==
    \A course \in Courses :
        ( /\ lessonCalls = EmptyBag
          /\ \A x \in DOMAIN lessonCompletions : lessonCompletions[x] <= 1
          /\ lessonsOf(course) # {}
          /\ completedCount(course, Learner) > 0 )
        => \A e \in enrollmentsOf(course, Learner) :
              SpecNearest(enrollments[e].progress, completedCount(course, Learner),
                          Cardinality(lessonsOf(course)))

\* C19: the lessonCompletions store holds at most one record for each lesson
\* and learner, whatever the interleaving of the calls of completeLesson.
C19_OneCompletionPerLessonAndLearner ==
    \A x \in DOMAIN lessonCompletions : lessonCompletions[x] <= 1

----------------------------------------------------------------------------
(* The questions the teacher's editor saves *)

\* C20: every multiple-choice question of a quiz saved through the teacher's
\* editor has a correctAnswer that is an index into the options saved with
\* it, and every saved question has points > 0.
C20_SavedCorrectAnswerIndexesSavedOptions ==
    \A id \in DOMAIN quizzes :
        \A i \in 1..Len(quizzes[id].questions) :
            LET q == quizzes[id].questions[i]
            IN  /\ q.points > 0
                /\ q.type = "multiple-choice"
                     => /\ q.correctAnswer.t = "number"
                        /\ q.correctAnswer.n >= 0
                        /\ q.correctAnswer.n < Len(q.options)

----------------------------------------------------------------------------
(* Grading twice *)

\* two stored submissions of the same quiz with the same answers map have
\* the same result
SameAnswersSameResult ==
    \A s, t \in 1..Len(quizSubmissions) :
        ( /\ quizSubmissions[s].quizId = quizSubmissions[t].quizId
          /\ quizSubmissions[s].answers = quizSubmissions[t].answers )
        => /\ quizSubmissions[s].score = quizSubmissions[t].score
           /\ quizSubmissions[s].percentage = quizSubmissions[t].percentage
           /\ quizSubmissions[s].isPassed = quizSubmissions[t].isPassed

\* the step that stores a submission leaves the quizzes and the earlier
\* submissions as they were and stores the answers map of the call
GradingLeavesInputs ==
    Len(quizSubmissions') > Len(quizSubmissions)
        => /\ quizzes' = quizzes
           /\ SubSeq(quizSubmissions', 1, Len(quizSubmissions)) = quizSubmissions
           /\ \E c \in BagToSet(calls) :
                 /\ c.pc = "grade"
                 /\ c.quiz = quizzes[c.quizId]
                 /\ quizSubmissions'[Len(quizSubmissions')].answers = c.answers

----------------------------------------------------------------------------
(* Sessions: the route guards, AuthService and the Router *)

Roles == {"admin", "teacher", "student"}
NoDoc == "none"
NoRole == ""

\* what the course operations and components hold: untouched by a session step
courseVars == <<quizVars, progressVars, teacherVars, studentVars, lastCall, viewVars>>

\* getUserData$().pipe(take(1)): the role of the signed-in user's document
\* (data['role'] || 'student'), "null" without a user or without a document
getUserData(user, store) ==
    IF user = Nobody THEN "null"
    ELSE IF store[user] = NoDoc THEN "null"
    ELSE IF store[user] = NoRole THEN "student"
    ELSE store[user]

\* what a guard answers, and the navigation it starts when it denies
GuardResult(allowed, navigate, returnUrl) ==
    [allowed |-> allowed, navigate |-> navigate, returnUrl |-> returnUrl]
Pass == GuardResult(TRUE, "", "")

authGuard(url, user) ==
    IF user # Nobody THEN Pass ELSE GuardResult(FALSE, "/login", url)

publicGuard(user) ==
    IF user = Nobody THEN Pass ELSE GuardResult(FALSE, "/dashboard", "")

\* a guard that lets every role but student through
roleGuardStudentsOnlyDenied(allowedRoles, url, user, store) ==
    LET userData == getUserData(user, store)
    IN  IF userData = "null" THEN GuardResult(FALSE, "/login", url)
        ELSE IF userData # "student" THEN Pass
        ELSE IF userData \in allowedRoles THEN Pass
        ELSE GuardResult(FALSE, "/student", "")

roleGuard(allowedRoles, url, user, store) ==
    LET userData == getUserData(user, store)
    IN  IF userData = "null" THEN GuardResult(FALSE, "/login", url)
        ELSE IF userData = "admin" THEN Pass
        ELSE IF userData \in allowedRoles THEN Pass
        ELSE GuardResult(FALSE,
                         CASE userData = "teacher" -> "/teacher"
                           [] userData = "student" -> "/student"
                           [] OTHER -> "/dashboard",
                         "")

\* the paths of the route table that load a component
Paths == {"/login", "/register", "/admin", "/teacher", "/student", "/dashboard"}

\* the allowedRoles of the routes guarded by roleGuard
allowedRolesOf(path) ==
    CASE path = "/admin" -> {"admin"}
      [] path = "/teacher" -> {"teacher", "admin"}
      [] path = "/student" -> {"student", "admin"}
      [] OTHER -> {}

\* canActivate of a route: the answers of its guards, in their order
canActivate(path, user, store) ==
    CASE path \in {"/login", "/register"} -> <<publicGuard(user)>>
      [] path \in {"/admin", "/teacher", "/student"} ->
            <<authGuard(path, user), roleGuard(allowedRolesOf(path), path, user, store)>>
      [] OTHER -> <<authGuard(path, user)>>

\* router.navigate([url]): the route that ends up activated, through the
\* redirects of the table ('' and '**' to /dashboard) and of the guards
RECURSIVE activated(_, _, _)
activated(url, user, store) ==
    IF url \notin Paths THEN activated("/dashboard", user, store)
    ELSE LET answers == canActivate(url, user, store)
             denying == { k \in DOMAIN answers : ~answers[k].allowed }
         IN  IF denying = {} THEN url
             ELSE activated(answers[CHOOSE k \in denying : \A j \in denying : k <= j].navigate,
                            user, store)

\* the user asks for a url (a link, the address bar)
Router_navigate(url) ==
    /\ location' = activated(url, authUser, users)
    /\ lastGuard' = IF allowedRolesOf(url) = {} THEN lastGuard
                    ELSE LET answer == roleGuard(allowedRolesOf(url), url, authUser, users)
                         IN  [url |-> url, allowed |-> answer.allowed,
                              navigate |-> answer.navigate, returnUrl |-> answer.returnUrl]
    /\ UNCHANGED <<users, authUser, currentUser, currentUserData, loadCalls, usersLog,
                   thrown, courseVars>>

MaxLoadCalls == 2

\* a loadUserData call: caller is who awaits it
LoadCall(uid, caller) == [pc |-> "getDoc", uid |-> uid, caller |-> caller]

\* AuthService.login: signInWithEmailAndPassword; the subscription of the
\* constructor sets currentUser and starts loadUserData, and so does login
AuthService_login(uid, signedIn) ==
    /\ authUser = Nobody
    /\ InFlight(loadCalls) + 2 <= MaxLoadCalls
    /\ IF ~signedIn
       THEN /\ thrown' = thrown \cup {"auth"}
            /\ UNCHANGED <<sessionVars, courseVars>>
       ELSE /\ authUser' = uid
            /\ currentUser' = uid
            /\ loadCalls' = Started(Started(loadCalls, LoadCall(uid, "subscription")),
                                    LoadCall(uid, "login"))
            /\ UNCHANGED <<users, currentUserData, location, lastGuard, usersLog,
                           thrown, courseVars>>

\* AuthService.redirectByRole
redirectByRole(role) ==
    CASE role = "admin" -> "/admin"
      [] role = "teacher" -> "/teacher"
      [] role = "student" -> "/student"
      [] OTHER -> "/dashboard"

\* loadUserData returns; login, when it awaited the call, reads
\* currentUserData and navigates
loadUserData_returns(c, data, store) ==
    /\ currentUserData' = data
    /\ loadCalls' = Returned(loadCalls, c)
    /\ location' = IF c.caller # "login" THEN location
                   ELSE IF data # NoUserData
                        THEN activated(redirectByRole(data.role), authUser, store)
                        ELSE activated("/dashboard", authUser, store)

\* loadUserData: "await getDoc(userRef)" and what follows up to the next await
loadUserData_getDoc ==
    \E c \in BagToSet(loadCalls) :
    /\ c.pc = "getDoc"
    /\ \E failed \in BOOLEAN :
          IF failed THEN loadUserData_returns(c, currentUserData, users)
          ELSE IF users[c.uid] = NoDoc
               THEN IF currentUser = Nobody
                    THEN loadUserData_returns(c, currentUserData, users)
                    ELSE /\ loadCalls' = Resumed(loadCalls, c, [c EXCEPT !.pc = "saveUserData"])
                         /\ UNCHANGED <<currentUserData, location>>
          ELSE IF users[c.uid] = NoRole
               THEN /\ loadCalls' = Resumed(loadCalls, c, [c EXCEPT !.pc = "updateDoc"])
                    /\ UNCHANGED <<currentUserData, location>>
          ELSE loadUserData_returns(c, [role |-> users[c.uid], of |-> c.uid], users)
    /\ UNCHANGED <<users, authUser, currentUser, lastGuard, usersLog, thrown, courseVars>>

\* loadUserData: "await updateDoc(userRef, {role: 'student', ...})" for a
\* document without a role; a failed write ends the call in its catch
loadUserData_updateDoc ==
    \E c \in BagToSet(loadCalls) :
    /\ c.pc = "updateDoc"
    /\ \E failed \in BOOLEAN :
          IF failed \/ users[c.uid] = NoDoc
          THEN /\ loadUserData_returns(c, currentUserData, users)
               /\ UNCHANGED users
          ELSE /\ users' = [users EXCEPT ![c.uid] = "student"]
               /\ loadUserData_returns(c, [role |-> "student", of |-> c.uid], users')
    /\ UNCHANGED <<authUser, currentUser, lastGuard, usersLog, thrown, courseVars>>

\* loadUserData without a document: "await this.saveUserData(uid, ...)"
\* (setDoc with merge; a failure is logged and not thrown), then
\* "await this.loadUserData(uid)"
loadUserData_saveUserData ==
    \E c \in BagToSet(loadCalls) :
    /\ c.pc = "saveUserData"
    /\ \E failed \in BOOLEAN :
          users' = IF failed THEN users ELSE [users EXCEPT ![c.uid] = "student"]
    /\ loadCalls' = Resumed(loadCalls, c, [c EXCEPT !.pc = "getDoc"])
    /\ UNCHANGED <<authUser, currentUser, currentUserData, location, lastGuard, usersLog,
                   thrown, courseVars>>

\* AuthService.logout: signOut; the subscription of the constructor clears
\* currentUser and currentUserData; logout navigates to /login
AuthService_logout(signedOut) ==
    /\ authUser # Nobody
    /\ IF ~signedOut
       THEN /\ thrown' = thrown \cup {"auth"}
            /\ UNCHANGED <<sessionVars, courseVars>>
       ELSE /\ authUser' = Nobody
            /\ currentUser' = Nobody
            /\ currentUserData' = NoUserData
            /\ location' = activated("/login", Nobody, users)
            /\ UNCHANGED <<users, loadCalls, lastGuard, usersLog, thrown, courseVars>>


\* the check of AuthService.isTeacher in the place of isAdmin
isAdminOrTeacher == currentUserData.role \in {"admin", "teacher"}

\* AuthService.isAdmin
isAdmin == currentUserData.role = "admin"

\* an access to the users collection by an operation reserved to admins
UsersAccess(op, kind) == [op |-> op, kind |-> kind, by |-> currentUserData.role]

\* AuthService.updateUserRole; updateDoc fails for a missing document
AuthService_updateUserRole(userId, newRole, failed) ==
    /\ IF ~isAdmin
       THEN /\ thrown' = thrown \cup {"Solo los administradores pueden cambiar roles"}
            /\ UNCHANGED <<users, usersLog>>
       ELSE /\ usersLog' = usersLog \cup {UsersAccess("updateUserRole", "write")}
            /\ IF failed \/ users[userId] = NoDoc
               THEN /\ thrown' = thrown \cup {"Error al actualizar el rol del usuario"}
                    /\ UNCHANGED users
               ELSE /\ users' = [users EXCEPT ![userId] = newRole]
                    /\ UNCHANGED thrown
    /\ UNCHANGED <<authUser, currentUser, currentUserData, loadCalls, location, lastGuard,
                   courseVars>>

\* AuthService.getAllUsers
AuthService_getAllUsers(failed) ==
    /\ IF ~isAdmin
       THEN /\ thrown' = thrown \cup {"Solo los administradores pueden ver todos los usuarios"}
            /\ UNCHANGED usersLog
       ELSE /\ usersLog' = usersLog \cup {UsersAccess("getAllUsers", "read")}
            /\ thrown' = IF failed
                         THEN thrown \cup {"Error al obtener la lista de usuarios"}
                         ELSE thrown
    /\ UNCHANGED <<users, authUser, currentUser, currentUserData, loadCalls, location,
                   lastGuard, courseVars>>

\* AuthService.migrateUsersWithoutRole: every document without a role gets
\* role 'student'
AuthService_migrateUsersWithoutRole(failed) ==
    /\ IF ~isAdmin
       THEN /\ thrown' = thrown \cup
                   {"Solo los administradores pueden ejecutar esta migracion"}
            /\ UNCHANGED <<users, usersLog>>
       ELSE IF failed
       THEN /\ usersLog' = usersLog \cup {UsersAccess("migrateUsersWithoutRole", "read")}
            /\ thrown' = thrown \cup {"getDocs"}
            /\ UNCHANGED users
       ELSE /\ usersLog' = usersLog \cup
                   {UsersAccess("migrateUsersWithoutRole", "read")} \cup
                   (IF \E u \in Uids : users[u] = NoRole
                    THEN {UsersAccess("migrateUsersWithoutRole", "write")} ELSE {})
            /\ users' = [u \in Uids |-> IF users[u] = NoRole THEN "student" ELSE users[u]]
            /\ UNCHANGED thrown
    /\ UNCHANGED <<authUser, currentUser, currentUserData, loadCalls, location, lastGuard,
                   courseVars>>

\* the users collection after registrations: each user has a document with
\* a role, a document without one, or none
InitSession ==
    /\ users \in [Uids -> Roles \cup {NoDoc, NoRole}]
    /\ authUser = Nobody
    /\ currentUser = Nobody
    /\ currentUserData = NoUserData
    /\ loadCalls = EmptyBag
    /\ location = "/login"
    /\ lastGuard = NoGuard
    /\ usersLog = {}
    /\ viewIdle
    /\ quizIdle
    /\ progressIdle
    /\ teacherIdle
    /\ studentIdle
    /\ lastCall = NoCall
    /\ thrown = {}

\* signing in and out, and asking for urls
NextGuard ==
    \/ \E u \in Uids, signedIn \in BOOLEAN : AuthService_login(u, signedIn)
    \/ \E signedOut \in BOOLEAN : AuthService_logout(signedOut)
    \/ loadUserData_getDoc
    \/ loadUserData_updateDoc
    \/ loadUserData_saveUserData
    \/ \E url \in Paths \cup {""} : Router_navigate(url)

SpecGuard == InitSession /\ [][NextGuard]_vars

\* signing in and out, and the operations reserved to admins
NextSession ==
    \/ \E u \in Uids : AuthService_login(u, TRUE)
    \/ AuthService_logout(TRUE)
    \/ loadUserData_getDoc
    \/ loadUserData_updateDoc
    \/ loadUserData_saveUserData
    \/ \E u \in Uids, role \in Roles : AuthService_updateUserRole(u, role, FALSE)
    \/ AuthService_getAllUsers(FALSE)
    \/ AuthService_migrateUsersWithoutRole(FALSE)

SpecSession == InitSession /\ [][NextSession]_vars


\* the signed-in user has a document in the users collection
SpecHasUserData(user, store) == user # Nobody /\ store[user] # NoDoc

\* the role of a user with a document: a document without a role counts as
\* a student's
SpecRoleOf(user, store) == IF store[user] = NoRole THEN "student" ELSE store[user]

\* what roleGuard answered in a navigation is what the claim says
SpecGuardAnswer ==
    lastGuard' # lastGuard =>
        LET url == lastGuard'.url
            known == SpecHasUserData(authUser, users)
            role == SpecRoleOf(authUser, users)
        IN  /\ lastGuard'.allowed
                 <=> (known /\ (role = "admin" \/ role \in allowedRolesOf(url)))
            /\ ~known => /\ lastGuard'.navigate = "/login"
                         /\ lastGuard'.returnUrl = url
            /\ (known /\ ~lastGuard'.allowed /\ role = "teacher")
                 => lastGuard'.navigate = "/teacher"
            /\ (known /\ ~lastGuard'.allowed /\ role = "student")
                 => lastGuard'.navigate = "/student"

\* /admin is activated for admins only, /teacher for teachers and admins
SpecActivation ==
    location' # location =>
        /\ location' = "/admin"
             => /\ SpecHasUserData(authUser', users')
                /\ SpecRoleOf(authUser', users') = "admin"
        /\ location' = "/teacher"
             => /\ SpecHasUserData(authUser', users')
                /\ SpecRoleOf(authUser', users') \in {"teacher", "admin"}

\* C22: roleGuard allows a navigation exactly when user data exists and the
\* role is admin or one of the allowed roles; without user data it sends the
\* router to /login with the url as returnUrl, a denied teacher to /teacher
\* and a denied student to /student; with the route table no student
\* activates /admin or /teacher and no teacher activates /admin.
C22_RoleGuardAllowsByRole == [][SpecGuardAnswer /\ SpecActivation]_vars

\* a signed-in student asked for /admin, was denied and is on /student
C22_Witness ==
    /\ authUser # Nobody
    /\ SpecHasUserData(authUser, users)
    /\ SpecRoleOf(authUser, users) = "student"
    /\ lastGuard = [url |-> "/admin", allowed |-> FALSE, navigate |-> "/student",
                    returnUrl |-> ""]
    /\ location = "/student"


\* the errors of the three operations for a caller who is not an admin
AdminOnlyErrors ==
    { "Solo los administradores pueden cambiar roles",
      "Solo los administradores pueden ver todos los usuarios",
      "Solo los administradores pueden ejecutar esta migracion" }

\* a step that throws one of these errors is made without the admin role
\* loaded and touches neither the users collection nor its log of accesses
SpecDeniedWithoutAccess ==
    (thrown' \ thrown) \cap AdminOnlyErrors # {}
        => /\ currentUserData.role # "admin"
           /\ users' = users
           /\ usersLog' = usersLog

\* a step of the three operations that reads or writes the users collection,
\* and every step outside loadUserData that changes a document, is made with
\* the admin role loaded
SpecAccessByAdmin ==
    /\ usersLog' # usersLog => currentUserData.role = "admin"
    /\ (users' # users /\ loadCalls' = loadCalls)
          => /\ currentUserData.role = "admin"
             /\ \E a \in usersLog' : a.kind = "write" /\ a.by = "admin"

\* C23: updateUserRole, getAllUsers and migrateUsersWithoutRole throw when
\* the loaded user data does not have role admin (or is null) and then
\* neither read nor write the users collection; roles are changed through
\* them only by a caller whose loaded role is admin.
C23_AdminOperationsNeedAdminRole ==
    /\ [](\A a \in usersLog : a.by = "admin")
    /\ [][SpecDeniedWithoutAccess /\ SpecAccessByAdmin]_vars

\* a student is signed in and loaded, updateUserRole has thrown, and the
\* users collection was never accessed by the three operations
C23_Witness ==
    /\ currentUserData.role = "student"
    /\ "Solo los administradores pueden cambiar roles" \in thrown
    /\ usersLog = {}

----------------------------------------------------------------------------
(* Grades: TeacherComponent.updateGrade. A grade is kept in tenths of a    *)
(* point, so that typed values like 99.5 are numbers of the model.         *)

GradeScale == 10

\* a number with one decimal digit, as tenths
Tenths(n) == [t |-> "number", n |-> n, s |-> <<>>]

StartsWith(s, prefix) ==
    Len(s) >= Len(prefix) /\ SubSeq(s, 1, Len(prefix)) = prefix

\* parseFloat(string) for decimal literals with at most one digit after the
\* point and no exponent: leading white space skipped, optional sign,
\* "Infinity", or digits with an optional point and digits; what follows the
\* number is ignored; NaN when there is no digit
ParseFloat(s) ==
    LET t == TrimStart(s)
        neg == t # <<>> /\ Head(t) = "-"
        signed == t # <<>> /\ (Head(t) = "-" \/ Head(t) = "+")
        body == IF signed THEN Tail(t) ELSE t
        whole == DigitPrefix(body)
        rest == SubSeq(body, Len(whole) + 1, Len(body))
        fraction == IF rest # <<>> /\ Head(rest) = "." THEN DigitPrefix(Tail(rest))
                    ELSE <<>>
        tenths == GradeScale * DigitsToNat(whole)
                  + (IF fraction = <<>> THEN 0 ELSE DigitValue(fraction[1]))
    IN  IF StartsWith(body, <<"I", "n", "f", "i", "n", "i", "t", "y">>)
        THEN (IF neg THEN NegInfinity ELSE Infinity)
        ELSE IF whole = <<>> /\ fraction = <<>> THEN NaN
        ELSE Tenths(IF neg THEN 0 - tenths ELSE tenths)

\* the values of the grade input: what the teacher types (a string, from
\* onGradeBlur) or a number handed to updateGrade
GradeInputs ==
    [ typed50 |-> Str(<<"5", "0">>),
      typed0 |-> Str(<<"0">>),
      typed100 |-> Str(<<"1", "0", "0">>),
      typed99point5 |-> Str(<<"9", "9", ".", "5">>),
      typedSpace7 |-> Str(<<" ", "7">>),
      typed50a |-> Str(<<"5", "0", "a">>),
      typed100point5 |-> Str(<<"1", "0", "0", ".", "5">>),
      typed101 |-> Str(<<"1", "0", "1">>),
      typedMinus1 |-> Str(<<"-", "1">>),
      typedA |-> Str(<<"a">>),
      typedInfinity |-> Str(<<"I", "n", "f", "i", "n", "i", "t", "y">>),
      number50 |-> Tenths(500),
      number101 |-> Tenths(1010),
      numberNaN |-> NaN ]

\* typeof grade === 'string' ? parseFloat(grade) : grade
gradeNumber(grade) == IF grade.t = "string" THEN ParseFloat(grade.s) ELSE grade

\* the check of updateGrade without its upper limit
gradeRejectedBelowZeroOnly(number) ==
    \/ number.t = "NaN"
    \/ number.t = "-Infinity"
    \/ number.t = "number" /\ number.n < 0

\* isNaN(gradeNumber) || gradeNumber < 0 || gradeNumber > 100
gradeRejected(number) ==
    \/ number.t = "NaN"
    \/ number.t \in {"Infinity", "-Infinity"}
    \/ number.t = "number" /\ (number.n < 0 \/ number.n > 100 * GradeScale)

\* a handler of a page component waiting at an await
ComponentCall(component, op) == [component |-> component, op |-> op]

\* TeacherComponent.updateGrade for an enrollment of the teacher's list, up
\* to "await this.courseService.updateGrade(...)": CourseService.updateGrade
\* writes the grade field alone; a failed write ends the handler in its catch
Teacher_updateGrade(enrollment, input) ==
    /\ enrollment \in 1..Len(enrollments)
    /\ InFlight(componentCalls) < MaxInFlight
    /\ IF gradeRejected(gradeNumber(GradeInputs[input]))
       THEN /\ lastCall' = Call("updateGrade", input, "returned")
            /\ UNCHANGED <<enrollments, componentCalls>>
       ELSE \E failed \in BOOLEAN :
            IF failed
            THEN /\ lastCall' = Call("updateGrade", input, "updateDoc failed")
                 /\ UNCHANGED <<enrollments, componentCalls>>
            ELSE /\ enrollments' = [enrollments EXCEPT
                                  ![enrollment].grade = gradeNumber(GradeInputs[input]).n]
                 /\ componentCalls' = Started(componentCalls,
                                              ComponentCall("teacher", "updateGrade"))
                 /\ lastCall' = Call("updateGrade", input, "updateDoc")
    /\ UNCHANGED <<lessons, lessonsCreated, lessonCompletions, lessonCalls, enrollCalls,
                   quizVars, thrown, teacherVars, studentVars, sessionVars,
                   componentUser, destroyed, subscriptions, viewSignals, lateUpdates>>

\* TeacherComponent.updateGrade after the await: the enrollments of the
\* selected course are subscribed to
updateGrade_resume ==
    /\ ComponentCall("teacher", "updateGrade") \in BagToSet(componentCalls)
    /\ componentCalls' = Returned(componentCalls, ComponentCall("teacher", "updateGrade"))
    /\ subscriptions' =
          IF teacherSelectedCourse = "none" THEN subscriptions
          ELSE subscriptions \cup
                 {Subscription("teacher", "enrollments", teacherSelectedCourse)}
    /\ UNCHANGED <<quizVars, progressVars, thrown, teacherVars, studentVars, lastCall,
                   sessionVars, componentUser, destroyed, viewSignals, lateUpdates>>

\* both students are enrolled in c1, which the teacher has selected; no grade
\* is stored
InitGrades ==
    /\ quizIdle
    /\ lessons = {}
    /\ lessonsCreated = 0
    /\ lessonCompletions = [x \in LessonIds \X Courses \X Students |-> 0]
    /\ enrollments = <<enrollmentData("c1", "s2"), enrollmentData("c1", Learner)>>
    /\ lessonCalls = EmptyBag
    /\ enrollCalls = EmptyBag
    /\ teacherSelectedCourse = "c1"
    /\ teacherSelectedQuiz = NoQuiz
    /\ quizQuestions = <<>>
    /\ studentIdle
    /\ sessionIdle
    /\ componentUser = [k \in Components |-> Nobody]
    /\ destroyed = [k \in Components |-> IF k = "teacher" THEN "no" ELSE "unmounted"]
    /\ subscriptions = {UserSubscription("teacher")} \cup
                       { Subscription("teacher", signal, "c1") :
                           signal \in {"enrollments", "lessons", "quizzes"} }
    /\ viewSignals = [k \in Components |-> [s \in SignalNames |-> NoData]]
    /\ componentCalls = EmptyBag
    /\ lateUpdates = {}
    /\ lastCall = NoCall
    /\ thrown = {}

NextGrades ==
    \/ \E e \in 1..2, input \in DOMAIN GradeInputs : Teacher_updateGrade(e, input)
    \/ updateGrade_resume

SpecGrades == InitGrades /\ [][NextGrades]_vars

\* the inputs that denote a number from 0 to 100, and that number in tenths
SpecGradeOf ==
    [ typed50 |-> 500, typed0 |-> 0, typed100 |-> 1000, typed99point5 |-> 995,
      typedSpace7 |-> 70, typed50a |-> 500, number50 |-> 500 ]

\* a call of updateGrade writes the grade its input denotes to the one
\* enrollment, leaving its other fields, or writes nothing
SpecGradeWritten ==
    (lastCall' # lastCall /\ lastCall'.op = "updateGrade") =>
        IF lastCall'.quizId \in DOMAIN SpecGradeOf /\ enrollments' # enrollments
        THEN \E e \in 1..Len(enrollments) :
                enrollments' = [enrollments EXCEPT
                                   ![e].grade = SpecGradeOf[lastCall'.quizId]]
        ELSE enrollments' = enrollments

\* C30: updateGrade writes a grade only when its input parses to a number
\* from 0 to 100 and writes nothing for any other input, so that every
\* stored grade lies in 0..100; the write leaves the enrollment's progress,
\* studentId and courseId as they were.
C30_GradeWrittenOnlyWithinRange ==
    /\ [](\A e \in 1..Len(enrollments) :
             enrollments[e].grade # NoGrade
                => enrollments[e].grade \in 0..(100 * GradeScale))
    /\ [][SpecGradeWritten]_vars

\* one enrollment has the grade 99.5, and the call made last, with 101, has
\* written nothing
C30_Witness ==
    /\ \E e \in 1..Len(enrollments) : enrollments[e].grade = 995
    /\ lastCall = Call("updateGrade", "typed101", "returned")

----------------------------------------------------------------------------
(* Enrolling: calls of enrollStudent that do not wait for each other, while *)
(* the teacher grades the enrollments there are                             *)

InitEnroll ==
    /\ quizIdle
    /\ progressIdle
    /\ teacherIdle
    /\ studentIdle
    /\ sessionIdle
    /\ mounted("teacher")
    /\ lastCall = NoCall
    /\ thrown = {}

NextEnroll ==
    \/ \E c \in Courses, s \in Students : enrollStudent_getEnrollment(c, s)
    \/ enrollStudent_addDoc
    \/ \E e \in 1..Len(enrollments) : Teacher_updateGrade(e, "typed50")
    \/ updateGrade_resume

SpecEnroll == InitEnroll /\ [][NextEnroll]_vars

\* C24: the enrollments store holds at most one record for each course and
\* student, whatever the interleaving of the calls of enrollStudent, and
\* every record enrollStudent creates has progress 0.
C24_OneEnrollmentPerCourseAndStudent ==
    /\ \A c \in Courses, s \in Students : Cardinality(enrollmentsOf(c, s)) <= 1
    /\ \A e \in 1..Len(enrollments) : enrollments[e].progress = 0

----------------------------------------------------------------------------
\* C27: once the user is signed out and no loadUserData call is pending,
\* currentUserData is null, also when the sign-out came while a loadUserData
\* call was in flight.
C27_NoUserDataAfterSignOut ==
    (authUser = Nobody /\ loadCalls = EmptyBag) => currentUserData = NoUserData

----------------------------------------------------------------------------
(* Termination of loadUserData: every awaited operation of the store is   *)
(* answered in the end, with a result or with an error                     *)

NextLoad ==
    \/ \E u \in Uids : AuthService_login(u, TRUE)
    \/ AuthService_logout(TRUE)
    \/ loadUserData_getDoc
    \/ loadUserData_updateDoc
    \/ loadUserData_saveUserData

FairLoad ==
    /\ WF_vars(loadUserData_getDoc)
    /\ WF_vars(loadUserData_updateDoc)
    /\ WF_vars(loadUserData_saveUserData)

SpecLoad == InitSession /\ [][NextLoad]_vars /\ FairLoad

\* C29: every call of loadUserData returns, whatever the store answers:
\* again and again no call is pending.
C29_LoadUserDataTerminates == []<>(loadCalls = EmptyBag)

----------------------------------------------------------------------------
(* StudentComponent.getQuestionPoints: the points shown for one question of *)
(* the submission on display                                                *)

\* typeof v === 'number'
IsNumberType(v) == v.t \in {"number", "NaN", "Infinity", "-Infinity"}

\* getQuestionPoints(question, questionIndex) for the submission shown;
\* questionIndex is zero-based
getQuestionPoints(submission, question, questionIndex) ==
    IF submission = NoSubmission THEN 0
    ELSE LET questionKey == IF question.id # NoId THEN question.id
                            ELSE NatToString(questionIndex)
             studentAnswer == Lookup(submission.answers, questionKey)
         IN  IF question.type = "multiple-choice"
             THEN LET correctAnswerNumber == IF IsNumberType(question.correctAnswer)
                                          THEN question.correctAnswer
                                          ELSE ParseInt(question.correctAnswer)
                      studentAnswerNumber == IF IsNumberType(studentAnswer) THEN studentAnswer
                                          ELSE IF Truthy(studentAnswer)
                                               THEN ParseInt(studentAnswer)
                                               ELSE Num(-1)
                  IN  IF StrictEquals(studentAnswerNumber, correctAnswerNumber)
                      THEN question.points ELSE 0
             ELSE IF ~Truthy(studentAnswer) THEN 0
             ELSE IF Trim(ToLowerCase(JSToString(studentAnswer)))
                        = Trim(ToLowerCase(JSToString(question.correctAnswer)))
                  THEN question.points ELSE 0

\* the sum of getQuestionPoints over the first n questions
RECURSIVE SpecShownPoints(_, _, _)
SpecShownPoints(submission, quiz, n) ==
    IF n = 0 THEN 0
    ELSE SpecShownPoints(submission, quiz, n - 1)
         + getQuestionPoints(submission, quiz.questions[n], n - 1)

\* C26: for every stored submission, getQuestionPoints gives question.points
\* for exactly the questions submitQuiz judged correct and 0 for the others,
\* and its sum over the quiz's questions is the stored score.
C26_ShownPointsAgreeWithScore ==
    \A s \in 1..Len(quizSubmissions) :
        LET submission == quizSubmissions[s]
            quiz == quizzes[submission.quizId]
        IN  /\ \A i \in 1..Len(quiz.questions) :
                  getQuestionPoints(submission, quiz.questions[i], i - 1)
                    = IF i \in SpecJudgedCorrect(quiz, submission.answers)
                      THEN quiz.questions[i].points ELSE 0
            /\ SpecShownPoints(submission, quiz, Len(quiz.questions)) = submission.score

----------------------------------------------------------------------------
(* A page component from ngOnInit to ngOnDestroy: what its subscription to *)
(* user$ does, what the store delivers to it, and the user signing out     *)

\* the callback of the component's subscription to user$ runs with the
\* present user. Signed out: destroy$.next() and router.navigate(['/login']).
\* Signed in: loadUserData, loadCourses, and loadEnrollments (student) or
\* loadUsers (admin) up to "await this.authService.getAllUsers()"
Component_userEmits(component) ==
    /\ UserSubscription(component) \in subscriptions
    /\ componentUser[component] # authUser
    /\ componentUser' = [componentUser EXCEPT ![component] = authUser]
    /\ IF authUser = Nobody
       THEN /\ destroyed' = [destroyed EXCEPT ![component] = "fired"]
            /\ subscriptions' = takeUntilDestroy(component)
            /\ location' = activated("/login", authUser, users)
            /\ UNCHANGED <<viewSignals, componentCalls, usersLog, thrown>>
       ELSE /\ viewSignals' = [viewSignals EXCEPT
                                  ![component]["userData"] = currentUserData.role]
            /\ subscriptions' = subscriptions \cup loadSubscriptions(component)
            /\ IF component # "admin"
               THEN UNCHANGED <<componentCalls, usersLog, thrown>>
               ELSE IF ~isAdmin
               THEN /\ thrown' = thrown \cup
                          {"Solo los administradores pueden ver todos los usuarios"}
                    /\ UNCHANGED <<componentCalls, usersLog>>
               ELSE /\ usersLog' = usersLog \cup {UsersAccess("getAllUsers", "read")}
                    /\ \E failed \in BOOLEAN :
                         IF failed
                         THEN /\ thrown' = thrown \cup
                                    {"Error al obtener la lista de usuarios"}
                              /\ UNCHANGED componentCalls
                         ELSE /\ componentCalls' =
                                    Started(componentCalls,
                                            ComponentCall("admin", "loadUsers"))
                              /\ UNCHANGED thrown
            /\ UNCHANGED <<destroyed, location>>
    /\ UNCHANGED <<users, authUser, currentUser, currentUserData, loadCalls, lastGuard,
                   quizVars, progressVars, teacherVars, studentVars, lastCall,
                   lateUpdates>>

\* AdminComponent.loadUsers after the await: this.users.set(usersList)
loadUsers_resume ==
    /\ ComponentCall("admin", "loadUsers") \in BagToSet(componentCalls)
    /\ componentCalls' = Returned(componentCalls, ComponentCall("admin", "loadUsers"))
    /\ viewSignals' = [viewSignals EXCEPT !["admin"]["users"] = AllCourses]
    /\ UNCHANGED <<quizVars, progressVars, thrown, teacherVars, studentVars, lastCall,
                   sessionVars, componentUser, destroyed, subscriptions, lateUpdates>>

\* ngOnDestroy, once the router has left the component's route:
\* destroy$.next() and destroy$.complete(); "completed" when the component
\* had seen the user signed out, "left" otherwise. user$ emits at signOut, before
\* logout asks the router for /login: the component has seen that emission
\* by the time it is destroyed
Component_ngOnDestroy(component) ==
    /\ destroyed[component] \in {"no", "fired"}
    /\ location # PathOf(component)
    /\ UserSubscription(component) \in subscriptions => componentUser[component] = authUser
    /\ destroyed' = [destroyed EXCEPT
                        ![component] = IF @ = "fired" THEN "completed" ELSE "left"]
    /\ subscriptions' = takeUntilDestroy(component)
    /\ UNCHANGED <<quizVars, progressVars, thrown, teacherVars, studentVars, lastCall,
                   sessionVars, componentUser, viewSignals, componentCalls, lateUpdates>>

\* the store delivers the present list to an open subscription, whose
\* callback sets the signal
Subscription_emits(sub) ==
    /\ sub \in subscriptions
    /\ sub.signal # "user"
    /\ sub # Subscription("student", "enrollments", AllCourses)
    /\ viewSignals' = [viewSignals EXCEPT ![sub.component][sub.signal] = sub.course]
    /\ lateUpdates' = IF destroyed[sub.component] \in {"fired", "completed"}
                      THEN lateUpdates \cup {sub} ELSE lateUpdates
    /\ UNCHANGED <<quizVars, progressVars, thrown, teacherVars, studentVars, lastCall,
                   sessionVars, componentUser, destroyed, subscriptions, componentCalls>>

\* the user u1 is signed in with the role of the page, the page's component
\* has been created, and the one course c1 has an enrollment
InitView ==
    /\ \E component \in Components :
          /\ users = [u \in Uids |-> IF u = "u1" THEN component ELSE "student"]
          /\ currentUserData = [role |-> component, of |-> "u1"]
          /\ location = PathOf(component)
          /\ mounted(component)
    /\ authUser = "u1"
    /\ currentUser = "u1"
    /\ loadCalls = EmptyBag
    /\ lastGuard = NoGuard
    /\ usersLog = {}
    /\ quizIdle
    /\ lessons = {}
    /\ lessonsCreated = 0
    /\ lessonCompletions = [x \in LessonIds \X Courses \X Students |-> 0]
    /\ enrollments = <<enrollmentData("c1", Learner)>>
    /\ lessonCalls = EmptyBag
    /\ enrollCalls = EmptyBag
    /\ teacherIdle
    /\ studentIdle
    /\ lastCall = NoCall
    /\ thrown = {}

\* the user works with the page while it is shown, signs out, and the store
\* and the pending handlers answer at any time
NextView ==
    \/ AuthService_logout(TRUE)
    \/ \E component \in Components : Component_userEmits(component)
    \/ \E component \in Components : Component_ngOnDestroy(component)
    \/ \E course \in ViewCourses :
          destroyed["student"] = "no" /\ Student_selectCourse(course)
    \/ \E course \in ViewCourses :
          destroyed["teacher"] = "no" /\ Teacher_selectCourse(course)
    \/ destroyed["teacher"] = "no" /\ Teacher_updateGrade(1, "typed50")
    \/ updateGrade_resume
    \/ loadUsers_resume
    \/ \E sub \in subscriptions : Subscription_emits(sub)

SpecView == InitView /\ [][NextView]_vars

\* C25: once the subscription to user$ has run with a signed-out user (so
\* destroy$ has fired and the component has asked for /login), no
\* subscription made with takeUntil(destroy$) sets a signal of the component.
C25_NoUpdateAfterSignOut == lateUpdates = {}

StudentCourseSignals == {"lessons", "completedLessons", "quizzes", "quizSubmissions"}

\* C28: whenever one of the student component's lessons, completedLessons,
\* quizzes and quizSubmissions signals is set, it is set to data of the course
\* selected at that time, never to data of a course selected before.
C28_SignalsFollowSelectedCourse ==
    [][\A signal \in StudentCourseSignals :
          viewSignals'["student"][signal] # viewSignals["student"][signal]
             => viewSignals'["student"][signal] = selectedCourse']_vars

====
